---- MODULE Spec2Model ----
(***************************************************************************)
(* Model of the shopcarts service: the Shopcart table (service/models.py), *)
(* the request helpers (service/common/helpers.py) and the POST, PUT and   *)
(* DELETE controllers (service/controllers).                               *)
(*                                                                         *)
(* A price is an integer number of thousandths of the currency unit, so    *)
(* that a price with three fractional digits is representable and is       *)
(* rejected by validate as in the source.  A cart total is in the same     *)
(* unit.                                                                   *)
(*                                                                         *)
(* A request runs in its own database session.  The session holds a        *)
(* working copy of the table (view); commit publishes the view to the      *)
(* table, rollback resets the view to the table, and the session is        *)
(* discarded when the request ends (Teardown).                             *)
(***************************************************************************)
EXTENDS Integers, Sequences, FiniteSets, TLC

VARIABLES store,    \* the committed rows of the shopcart table
          pc,       \* "idle": no request in progress; "responded": a handler has run
          req,      \* the request the last handler served
          resp,     \* its response: status, exception, message, total
          before,   \* the committed rows when the handler started
          session   \* the handler's session when it returned

vars == <<store, pc, req, resp, before, session>>

----------------------------------------------------------------------------
(* Bounds and input sets *)

MaxQty == 2

Users == {1, 2}
Items == {1, 2}

\* the (owner, item) pairs that requests name: owner 1 with two items, owner 2 with one
Keys == {<<1, 1>>, <<1, 2>>, <<2, 1>>}

QtyInputs == {-1, 0, 1, 2}
BatchQtyInputs == {-1, 0, 2}

\* (price, description) pairs a request may carry: two valid, two invalid
ProductInputs ==
    { [price |-> 10,  name |-> "a"],
      [price |-> 0,   name |-> "b"],
      [price |-> -10, name |-> "a"],
      [price |-> 5,   name |-> "b"] }

NoCeiling == [given |-> FALSE, val |-> 0]
Ceiling(n) == [given |-> TRUE, val |-> n]

\* (stock, purchase_limit) pairs a request may carry
CeilingInputs ==
    { [stock |-> NoCeiling,  purchase_limit |-> NoCeiling],
      [stock |-> Ceiling(0), purchase_limit |-> NoCeiling],
      [stock |-> Ceiling(2), purchase_limit |-> NoCeiling],
      [stock |-> NoCeiling,  purchase_limit |-> Ceiling(1)],
      [stock |-> Ceiling(2), purchase_limit |-> Ceiling(1)] }

\* one entry of the "items" list of a batch update
Entry(i, q) == [wellformed |-> TRUE, item_id |-> i, quantity |-> q]
Malformed == [wellformed |-> FALSE, item_id |-> 0, quantity |-> 0]

MaxBatch == 2

BatchEntries == {Malformed} \cup {Entry(i, q) : i \in Items, q \in BatchQtyInputs}

BatchInputs == UNION {[1..n -> BatchEntries] : n \in 1..MaxBatch}

----------------------------------------------------------------------------
(* The table and the session *)

Row(u, i, d, q, p) ==
    [user_id |-> u, item_id |-> i, description |-> d, quantity |-> q, price |-> p]

\* the composite primary key (user_id, item_id)
PrimaryKeyOk(rows) ==
    \A r1 \in rows : \A r2 \in rows :
        (r1.user_id = r2.user_id /\ r1.item_id = r2.item_id) => r1 = r2

\* Shopcart.find: the rows with the key (none or one)
find(rows, u, i) == {r \in rows : r.user_id = u /\ r.item_id = i}

find_by_user_id(rows, u) == {r \in rows : r.user_id = u}

\* Decimal(str(price)).as_tuple().exponent, for a price in thousandths
Exponent(p) ==
    IF p % 1000 = 0 THEN 0
    ELSE IF p % 100 = 0 THEN -1
    ELSE IF p % 10 = 0 THEN -2
    ELSE -3

validate_NoQuantityCheck(r) ==
    IF r.price < 0 THEN "Price cannot be less than 0."
    ELSE IF Exponent(r.price) < -2 THEN "Price cannot have more than 2 decimal places."
    ELSE "ok"

\* Shopcart.validate: "ok" or the message of the ValueError
validate(r) ==
    IF r.price < 0 THEN "Price cannot be less than 0."
    ELSE IF Exponent(r.price) < -2 THEN "Price cannot have more than 2 decimal places."
    ELSE IF r.quantity <= 0 THEN "Quantity must be greater than 0."
    ELSE "ok"

\* The state a handler threads through its calls.
\*   db: committed rows; view: the session's working copy;
\*   commits / rollbacks: calls made so far; exc: the exception in flight
NewCtx(rows) ==
    [db |-> rows, view |-> rows, commits |-> 0, rollbacks |-> 0,
     exc |-> "none", msg |-> ""]

Raise(ctx, e, m) == [ctx EXCEPT !.exc = e, !.msg = m]

\* as commit, but the commit that fails has written its changes
commit_FailedWrites(ctx, failAt) ==
    LET n == ctx.commits + 1 IN
    IF n = failAt \/ ~PrimaryKeyOk(ctx.view)
    THEN [ctx EXCEPT !.commits = n, !.db = ctx.view, !.exc = "Exception", !.msg = "DB error"]
    ELSE [ctx EXCEPT !.commits = n, !.db = ctx.view]

\* db.session.commit(): the failAt-th commit of the request fails, and so
\* does one that violates the primary key; a failed commit writes nothing
commit(ctx, failAt) ==
    LET n == ctx.commits + 1 IN
    IF n = failAt \/ ~PrimaryKeyOk(ctx.view)
    THEN [ctx EXCEPT !.commits = n, !.exc = "Exception", !.msg = "DB error"]
    ELSE [ctx EXCEPT !.commits = n, !.db = ctx.view]

rollback_Skipped(ctx) == ctx

\* db.session.rollback()
rollback(ctx) == [ctx EXCEPT !.view = ctx.db, !.rollbacks = @ + 1]

\* except Exception as e: rollback; raise DataValidationError(e)
Guarded(c) ==
    IF c.exc = "Exception"
    THEN Raise(rollback(c), "DataValidationError", c.msg)
    ELSE c

\* Shopcart.create of a new object
create(ctx, row, failAt) ==
    IF validate(row) # "ok" THEN Raise(ctx, "ValueError", validate(row))
    ELSE Guarded(commit([ctx EXCEPT !.view = @ \cup {row}], failAt))

\* cart_item.quantity = q on the object the session loaded
SetQuantity(ctx, row, q) ==
    [ctx EXCEPT !.view = (@ \ {row}) \cup {[row EXCEPT !.quantity = q]}]

\* as update, without the call of validate
update_Unvalidated(ctx, row, failAt) ==
    Guarded(commit(ctx, failAt))

\* Shopcart.update of a loaded object whose attributes now are row
update(ctx, row, failAt) ==
    IF validate(row) # "ok" THEN Raise(ctx, "ValueError", validate(row))
    ELSE Guarded(commit(ctx, failAt))

\* Shopcart.delete of a loaded object
delete(ctx, row, failAt) ==
    Guarded(commit([ctx EXCEPT !.view = @ \ {row}], failAt))

----------------------------------------------------------------------------
(* Requests and responses *)

NoReq ==
    [op |-> "none", user_id |-> 0, item_id |-> 0, json |-> "none", quantity |-> 0,
     price |-> 0, name |-> "", stock |-> NoCeiling, purchase_limit |-> NoCeiling,
     items |-> <<>>, failAt |-> 0]

NoResp == [status |-> 0, exc |-> "none", msg |-> "", total |-> 0]

Resp(st, ctx) == [status |-> st, exc |-> ctx.exc, msg |-> ctx.msg, total |-> 0]

\* The runs explored: stored quantities stay within MaxQty, and a commit that is
\* chosen to fail is one the handler makes
Bounded(ctx, failAt) ==
    /\ \A r \in ctx.db : r.quantity <= MaxQty
    /\ failAt <= ctx.commits

\* a handler has run: publish what it committed and record what it answered
Respond(r, ctx, rsp) ==
    /\ pc' = "responded"
    /\ req' = r
    /\ resp' = rsp
    /\ before' = store
    /\ store' = ctx.db
    /\ session' = ctx

\* the request ends: the session is removed, its uncommitted changes with it
Teardown ==
    /\ pc = "responded"
    /\ pc' = "idle"
    /\ req' = NoReq
    /\ resp' = NoResp
    /\ before' = {}
    /\ session' = NewCtx({})
    /\ UNCHANGED store

----------------------------------------------------------------------------
(* POST /shopcarts/<user_id> *)

\* as add_to_or_create_cart, but the existing row takes the request's quantity
add_to_or_create_cart_Overwrite(ctx, u, i, d, p, q, failAt) ==
    LET cart_item == find(ctx.view, u, i) IN
    IF cart_item # {}
    THEN LET old == CHOOSE r \in cart_item : TRUE
             new == [old EXCEPT !.quantity = q]
         IN update(SetQuantity(ctx, old, new.quantity), new, failAt)
    ELSE create(ctx, Row(u, i, d, q, p), failAt)

\* add_to_or_create_cart_controller, after the payload has been parsed
add_to_or_create_cart(ctx, u, i, d, p, q, failAt) ==
    LET cart_item == find(ctx.view, u, i) IN
    IF cart_item # {}
    THEN LET old == CHOOSE r \in cart_item : TRUE
             new == [old EXCEPT !.quantity = @ + q]
         IN update(SetQuantity(ctx, old, new.quantity), new, failAt)
    ELSE create(ctx, Row(u, i, d, q, p), failAt)

\* every exception of update and create is answered 500
AddItemStatus(ctx) == IF ctx.exc = "none" THEN 201 ELSE 500

AddItem ==
    /\ pc = "idle"
    /\ \E <<u, i>> \in Keys :
        LET r0 == [NoReq EXCEPT !.op = "add_item", !.user_id = u, !.item_id = i]
            ctx0 == NewCtx(store)
        IN
        \/ Respond(r0, ctx0, Resp(400, Raise(ctx0, "none", "Missing JSON payload")))
        \/ Respond([r0 EXCEPT !.json = "bad"], ctx0,
                   Resp(400, Raise(ctx0, "none", "Invalid input")))
        \/ \E q \in QtyInputs, pd \in ProductInputs, failAt \in 0..1 :
             LET r == [r0 EXCEPT !.json = "ok", !.quantity = q, !.price = pd.price,
                                 !.name = pd.name, !.failAt = failAt]
                 ctx == add_to_or_create_cart(ctx0, u, i, pd.name, pd.price, q, failAt)
             IN /\ Bounded(ctx, failAt)
                /\ Respond(r, ctx, Resp(AddItemStatus(ctx), ctx))

----------------------------------------------------------------------------
(* POST /shopcarts/<user_id>/items *)

\* validate_stock_and_limits: "ok" or the error message
validate_stock_and_limits(quantity, stock, purchase_limit) ==
    IF stock.given /\ stock.val < 1 THEN "Product is out of stock"
    ELSE IF stock.given /\ quantity > stock.val THEN "Only stock units are available"
    ELSE IF purchase_limit.given /\ quantity > purchase_limit.val
         THEN "Cannot exceed purchase limit"
    ELSE "ok"

\* as update_or_create_cart_item, but the ceilings are checked against the
\* requested quantity alone
update_or_create_cart_item_NoRecheck(ctx, u, product_id, quantity, name, price, stock, purchase_limit, failAt) ==
    LET cart_item == find(ctx.view, u, product_id) IN
    IF cart_item # {}
    THEN LET old == CHOOSE r \in cart_item : TRUE
             new_quantity == old.quantity + quantity
             error_response == validate_stock_and_limits(quantity, stock, purchase_limit)
         IN IF error_response # "ok"
            THEN Raise(ctx, "ValueError", error_response)
            ELSE update(SetQuantity(ctx, old, new_quantity),
                        [old EXCEPT !.quantity = new_quantity], failAt)
    ELSE create(ctx, Row(u, product_id, name, quantity, price), failAt)

update_or_create_cart_item(ctx, u, product_id, quantity, name, price, stock, purchase_limit, failAt) ==
    LET cart_item == find(ctx.view, u, product_id) IN
    IF cart_item # {}
    THEN LET old == CHOOSE r \in cart_item : TRUE
             new_quantity == old.quantity + quantity
             error_response == validate_stock_and_limits(new_quantity, stock, purchase_limit)
         IN IF error_response # "ok"
            THEN Raise(ctx, "ValueError", error_response)
            ELSE update(SetQuantity(ctx, old, new_quantity),
                        [old EXCEPT !.quantity = new_quantity], failAt)
    ELSE create(ctx, Row(u, product_id, name, quantity, price), failAt)

\* add_product_to_cart_controller, after validate_request_data has parsed the payload
add_product_to_cart(ctx, u, product_id, quantity, name, price, stock, purchase_limit, failAt) ==
    LET error_response == validate_stock_and_limits(quantity, stock, purchase_limit) IN
    IF error_response # "ok"
    THEN Raise(ctx, "StockOrLimit", error_response)
    ELSE update_or_create_cart_item(ctx, u, product_id, quantity, name, price,
                                    stock, purchase_limit, failAt)

\* the early return and every exception are answered 400
AddProductStatus(ctx) == IF ctx.exc = "none" THEN 201 ELSE 400

AddProduct ==
    /\ pc = "idle"
    /\ \E <<u, i>> \in Keys :
        LET r0 == [NoReq EXCEPT !.op = "add_product", !.user_id = u, !.item_id = i]
            ctx0 == NewCtx(store)
        IN
        \/ Respond(r0, ctx0, Resp(400, Raise(ctx0, "none", "Missing JSON payload")))
        \/ Respond([r0 EXCEPT !.json = "bad"], ctx0,
                   Resp(400, Raise(ctx0, "ValueError", "Invalid input")))
        \/ \E q \in QtyInputs, pd \in ProductInputs, c \in CeilingInputs, failAt \in 0..1 :
             LET r == [r0 EXCEPT !.json = "ok", !.quantity = q, !.price = pd.price,
                                 !.name = pd.name, !.stock = c.stock,
                                 !.purchase_limit = c.purchase_limit, !.failAt = failAt]
                 ctx == add_product_to_cart(ctx0, u, i, q, pd.name, pd.price,
                                            c.stock, c.purchase_limit, failAt)
             IN /\ Bounded(ctx, failAt)
                /\ Respond(r, ctx, Resp(AddProductStatus(ctx), ctx))

----------------------------------------------------------------------------
(* PUT /shopcarts/<user_id>/items/<item_id> *)

\* as update_cart_item, but quantity 0 is stored like any other quantity
update_cart_item_NoDelete(ctx, u, i, quantity, failAt) ==
    LET cart_item == find(ctx.view, u, i) IN
    IF cart_item = {} THEN Raise(ctx, "NotFound", "Item not found cart")
    ELSE LET old == CHOOSE r \in cart_item : TRUE IN
         update(SetQuantity(ctx, old, quantity),
                [old EXCEPT !.quantity = quantity], failAt)

\* update_cart_item_controller, after the quantity has been parsed
update_cart_item(ctx, u, i, quantity, failAt) ==
    LET cart_item == find(ctx.view, u, i) IN
    IF cart_item = {} THEN Raise(ctx, "NotFound", "Item not found cart")
    ELSE LET old == CHOOSE r \in cart_item : TRUE IN
         IF quantity = 0 THEN delete(ctx, old, failAt)
         ELSE update(SetQuantity(ctx, old, quantity),
                     [old EXCEPT !.quantity = quantity], failAt)

\* only ValueError is caught (400); a DataValidationError is not handled (500)
UpdateItemStatus(ctx) ==
    CASE ctx.exc = "none" -> 200
      [] ctx.exc = "NotFound" -> 404
      [] ctx.exc = "ValueError" -> 400
      [] OTHER -> 500

UpdateItem ==
    /\ pc = "idle"
    /\ \E <<u, i>> \in Keys :
        LET r0 == [NoReq EXCEPT !.op = "update_item", !.user_id = u, !.item_id = i]
            ctx0 == NewCtx(store)
        IN
        \/ Respond(r0, ctx0, Resp(400, Raise(ctx0, "none", "Missing JSON payload")))
        \/ Respond([r0 EXCEPT !.json = "bad"], ctx0,
                   Resp(500, Raise(ctx0, "TypeError", "int() argument")))
        \/ \E q \in QtyInputs, failAt \in 0..1 :
             LET r == [r0 EXCEPT !.json = "ok", !.quantity = q, !.failAt = failAt]
                 ctx == update_cart_item(ctx0, u, i, q, failAt)
             IN /\ Bounded(ctx, failAt)
                /\ Respond(r, ctx, Resp(UpdateItemStatus(ctx), ctx))

----------------------------------------------------------------------------
(* PUT /shopcarts/<user_id> *)

\* as update_cart_item_helper, but an item that is not in the cart is inserted
update_cart_item_helper_Upsert(ctx, u, item_id, quantity, failAt) ==
    LET cart_item == find(ctx.view, u, item_id) IN
    IF cart_item = {} THEN create(ctx, Row(u, item_id, "", quantity, 0), failAt)
    ELSE LET old == CHOOSE r \in cart_item : TRUE IN
         IF quantity = 0 THEN delete(ctx, old, failAt)
         ELSE update(SetQuantity(ctx, old, quantity),
                     [old EXCEPT !.quantity = quantity], failAt)

\* update_cart_item_helper
update_cart_item_helper(ctx, u, item_id, quantity, failAt) ==
    LET cart_item == find(ctx.view, u, item_id) IN
    IF cart_item = {} THEN Raise(ctx, "LookupError", "Item not found in user's cart")
    ELSE LET old == CHOOSE r \in cart_item : TRUE IN
         IF quantity = 0 THEN delete(ctx, old, failAt)
         ELSE update(SetQuantity(ctx, old, quantity),
                     [old EXCEPT !.quantity = quantity], failAt)

\* one pass of the loop of process_cart_updates
process_item(ctx, u, item, failAt) ==
    IF ~item.wellformed THEN Raise(ctx, "ValueError", "Invalid input")
    ELSE IF item.quantity < 0 THEN Raise(ctx, "ValueError", "Quantity cannot be negative")
    ELSE update_cart_item_helper(ctx, u, item.item_id, item.quantity, failAt)

RECURSIVE process_cart_updates(_, _, _, _)
process_cart_updates(ctx, u, items, failAt) ==
    IF items = <<>> \/ ctx.exc # "none" THEN ctx
    ELSE process_cart_updates(process_item(ctx, u, Head(items), failAt),
                              u, Tail(items), failAt)

\* update_shopcart_controller, for a payload that is not empty;
\* islist: the payload's "items" is a non-empty list
update_shopcart(ctx, u, islist, items, failAt) ==
    IF find_by_user_id(ctx.view, u) = {}
    THEN Raise(ctx, "NotFound", "Shopcart for user not found")
    ELSE IF ~islist THEN Raise(ctx, "ValueError", "Invalid payload: 'items' must be a list")
    ELSE process_cart_updates(ctx, u, items, failAt)

UpdateShopcartStatus(ctx) ==
    CASE ctx.exc = "none" -> 200
      [] ctx.exc \in {"NotFound", "LookupError"} -> 404
      [] OTHER -> 400

UpdateShopcart ==
    /\ pc = "idle"
    /\ \E u \in Users :
        LET r0 == [NoReq EXCEPT !.op = "update_shopcart", !.user_id = u]
            ctx0 == NewCtx(store)
        IN
        \/ Respond(r0, ctx0, Resp(400, Raise(ctx0, "none", "Missing JSON payload")))
        \/ LET ctx == update_shopcart(ctx0, u, FALSE, <<>>, 0)
           IN Respond([r0 EXCEPT !.json = "bad"], ctx, Resp(UpdateShopcartStatus(ctx), ctx))
        \/ \E items \in BatchInputs, failAt \in 0..MaxBatch :
             LET r == [r0 EXCEPT !.json = "ok", !.items = items, !.failAt = failAt]
                 ctx == update_shopcart(ctx0, u, TRUE, items, failAt)
             IN /\ Bounded(ctx, failAt)
                /\ Respond(r, ctx, Resp(UpdateShopcartStatus(ctx), ctx))

----------------------------------------------------------------------------
(* POST /shopcarts/<user_id>/checkout *)

\* the orders in which a query can return a set of rows
Orders(rows) ==
    {s \in [1..Cardinality(rows) -> rows] : \A r \in rows : \E k \in DOMAIN s : s[k] = r}

\* as TotalPrice, but the quantities are not counted
RECURSIVE TotalPrice_UnitPrices(_)
TotalPrice_UnitPrices(items) ==
    IF items = <<>> THEN 0
    ELSE Head(items).price + TotalPrice_UnitPrices(Tail(items))

RECURSIVE TotalPrice(_)
TotalPrice(items) ==
    IF items = <<>> THEN 0
    ELSE Head(items).price * Head(items).quantity + TotalPrice(Tail(items))

\* as DeleteEach, but the loop ends after the first item
DeleteEach_FirstOnly(ctx, items, failAt) ==
    IF items = <<>> \/ ctx.exc # "none" THEN ctx
    ELSE delete(ctx, Head(items), failAt)

\* for item in items: item.delete()
RECURSIVE DeleteEach(_, _, _)
DeleteEach(ctx, items, failAt) ==
    IF items = <<>> \/ ctx.exc # "none" THEN ctx
    ELSE DeleteEach(delete(ctx, Head(items), failAt), Tail(items), failAt)

\* as finalize_cart, without the check of the total
finalize_cart_NoTotalCheck(ctx, items, failAt) ==
    IF items = <<>> THEN Raise(ctx, "DataValidationError", "No cart found for user")
    ELSE DeleteEach(ctx, items, failAt)

\* Shopcart.finalize_cart; items is find_by_user_id(user_id) in the order returned
finalize_cart(ctx, items, failAt) ==
    IF items = <<>> THEN Raise(ctx, "DataValidationError", "No cart found for user")
    ELSE IF TotalPrice(items) = 0
         THEN Raise(ctx, "DataValidationError", "Cart is empty. Nothing to checkout.")
    ELSE DeleteEach(ctx, items, failAt)

\* as CheckoutStatus, but only the generic handler is there
CheckoutStatus_Generic(ctx) ==
    IF ctx.exc = "none" THEN 200 ELSE 500

\* checkout_controller: DataValidationError is answered 400
CheckoutStatus(ctx) ==
    CASE ctx.exc = "none" -> 200
      [] ctx.exc = "DataValidationError" -> 400
      [] OTHER -> 500

Checkout ==
    /\ pc = "idle"
    /\ \E u \in Users, failAt \in 0..Cardinality(Items) :
      \E items \in Orders(find_by_user_id(store, u)) :
        LET r == [NoReq EXCEPT !.op = "checkout", !.user_id = u, !.failAt = failAt]
            ctx == finalize_cart(NewCtx(store), items, failAt)
            total == IF ctx.exc = "none" THEN TotalPrice(items) ELSE 0
        IN /\ Bounded(ctx, failAt)
           /\ Respond(r, ctx, [Resp(CheckoutStatus(ctx), ctx) EXCEPT !.total = total])

----------------------------------------------------------------------------
(* DELETE /shopcarts/<user_id> and DELETE /shopcarts/<user_id>/items/<item_id> *)

DeleteStatus(ctx) ==
    CASE ctx.exc = "none" -> 204
      [] ctx.exc = "NotFound" -> 404
      [] OTHER -> 500

\* delete_shopcart_controller
DeleteShopcart ==
    /\ pc = "idle"
    /\ \E u \in Users, failAt \in 0..Cardinality(Items) :
      \E items \in Orders(find_by_user_id(store, u)) :
        LET r == [NoReq EXCEPT !.op = "delete_shopcart", !.user_id = u, !.failAt = failAt]
            ctx == DeleteEach(NewCtx(store), items, failAt)
        IN /\ Bounded(ctx, failAt)
           /\ Respond(r, ctx, Resp(DeleteStatus(ctx), ctx))

\* as delete_shopcart_item, but all the rows of the owner are deleted
delete_shopcart_item_WholeCart(ctx, u, i, failAt) ==
    IF find(ctx.view, u, i) = {} THEN Raise(ctx, "NotFound", "Item was not found in user's cart")
    ELSE Guarded(commit([ctx EXCEPT !.view = {r \in @ : r.user_id # u}], failAt))

delete_shopcart_item(ctx, u, i, failAt) ==
    LET cart_item == find(ctx.view, u, i) IN
    IF cart_item = {} THEN Raise(ctx, "NotFound", "Item was not found in user's cart")
    ELSE delete(ctx, CHOOSE r \in cart_item : TRUE, failAt)

\* delete_shopcart_item_controller
DeleteShopcartItem ==
    /\ pc = "idle"
    /\ \E <<u, i>> \in Keys, failAt \in 0..1 :
        LET r == [NoReq EXCEPT !.op = "delete_item", !.user_id = u, !.item_id = i,
                               !.failAt = failAt]
            ctx == delete_shopcart_item(NewCtx(store), u, i, failAt)
        IN /\ Bounded(ctx, failAt)
           /\ Respond(r, ctx, Resp(DeleteStatus(ctx), ctx))

----------------------------------------------------------------------------

Init ==
    /\ store = {}
    /\ pc = "idle"
    /\ req = NoReq
    /\ resp = NoResp
    /\ before = {}
    /\ session = NewCtx({})

Next ==
    \/ AddItem
    \/ AddProduct
    \/ UpdateItem
    \/ UpdateShopcart
    \/ Checkout
    \/ DeleteShopcart
    \/ DeleteShopcartItem
    \/ Teardown

Spec == Init /\ [][Next]_vars

----------------------------------------------------------------------------
(* Properties *)

Responded(op) == pc = "responded" /\ req.op = op

\* the row the request names, before and after the handler
OldRow == find(before, req.user_id, req.item_id)
NewRow == find(store, req.user_id, req.item_id)

OthersUnchanged(u) ==
    {r \in store : r.user_id # u} = {r \in before : r.user_id # u}

RECURSIVE SumRows(_)
SumRows(rows) ==
    IF rows = {} THEN 0
    ELSE LET r == CHOOSE x \in rows : TRUE
         IN r.price * r.quantity + SumRows(rows \ {r})

\* C1: every committed row has quantity > 0 and a price >= 0 with at most two
\* fractional digits, whatever requests were served and however they ended.
C1_PersistedRowsValid ==
    \A r \in store :
        /\ r.quantity > 0
        /\ r.price >= 0
        /\ Exponent(r.price) >= -2

\* a request that left an invalid quantity in its session was answered with an
\* error while the table holds rows
C1_Witness ==
    /\ pc = "responded"
    /\ resp.msg = "Quantity must be greater than 0."
    /\ \E r \in session.view : r.quantity <= 0
    /\ store # {}

\* C2: a successful add to (u, i) leaves exactly one row for (u, i); if the row
\* was there its quantity grows by the requested quantity and its price and
\* description stay those of the first insert, whatever the request carries;
\* if it was not, the row is the request's.
C2_AddIncrements ==
    (pc = "responded" /\ req.op \in {"add_item", "add_product"} /\ resp.status = 201) =>
        /\ Cardinality(NewRow) = 1
        /\ \A new \in NewRow :
             /\ \A old \in OldRow :
                  /\ new.quantity = old.quantity + req.quantity
                  /\ new.price = old.price
                  /\ new.description = old.description
             /\ OldRow = {} =>
                  new = Row(req.user_id, req.item_id, req.name, req.quantity, req.price)

\* the second add carried another price and description and a positive quantity
C2_Witness ==
    /\ Responded("add_item")
    /\ resp.status = 201
    /\ req.quantity > 0
    /\ \E old \in OldRow : old.price # req.price /\ old.description # req.name

\* C3: add-product on an existing row whose quantity plus the requested one
\* exceeds a supplied ceiling fails and leaves the row as it was; after a
\* successful add-product the row's quantity is within every supplied ceiling.
C3_CeilingsOnCombined ==
    (Responded("add_product") /\ req.json = "ok") =>
        /\ \A old \in OldRow :
             (\/ req.stock.given /\ old.quantity + req.quantity > req.stock.val
              \/ req.purchase_limit.given
                   /\ old.quantity + req.quantity > req.purchase_limit.val)
             => (resp.status = 400 /\ NewRow = OldRow)
        /\ resp.status = 201 =>
             \A new \in NewRow :
                /\ req.stock.given => new.quantity <= req.stock.val
                /\ req.purchase_limit.given => new.quantity <= req.purchase_limit.val

\* the requested quantity alone is within the stock, the combined one is not
C3_Witness ==
    /\ Responded("add_product")
    /\ req.stock.given
    /\ req.quantity > 0
    /\ req.quantity <= req.stock.val
    /\ ~req.purchase_limit.given
    /\ \E old \in OldRow : old.quantity + req.quantity > req.stock.val
    /\ resp.status = 400

\* C4: an update of an existing item to quantity 0, single or in a batch, that
\* is answered 200 has deleted the row; with no commit failure it is answered
\* 200; and no committed row has quantity 0.
C4_ZeroQuantityDeletes ==
    /\ \A r \in store : r.quantity # 0
    /\ (Responded("update_item") /\ req.json = "ok" /\ req.quantity = 0 /\ OldRow # {}) =>
          /\ req.failAt = 0 => resp.status = 200
          /\ resp.status = 200 => NewRow = {}
    /\ (Responded("update_shopcart") /\ req.json = "ok") =>
          /\ resp.status = 200 =>
               \A k \in DOMAIN req.items :
                  req.items[k].quantity = 0 =>
                      find(store, req.user_id, req.items[k].item_id) = {}
          /\ \A i \in Items :
               (req.items = <<Entry(i, 0)>> /\ find(before, req.user_id, i) # {}
                  /\ req.failAt = 0) => resp.status = 200

\* a batch answered 200 has deleted a row that was there
C4_Witness ==
    /\ Responded("update_shopcart") /\ resp.status = 200
    /\ \E k \in DOMAIN req.items :
         /\ req.items[k].quantity = 0
         /\ find(before, req.user_id, req.items[k].item_id) # {}
         /\ find(store, req.user_id, req.items[k].item_id) = {}

\* C5: an update of an item that is not in the table is answered 404 and writes
\* nothing, through the single-item update and through a batch entry; a batch
\* update for an owner with no rows is answered 404 and writes nothing.
C5_UpdateMissingNotFound ==
    /\ (Responded("update_item") /\ req.json = "ok" /\ OldRow = {}) =>
          (resp.status = 404 /\ store = before)
    /\ (Responded("update_shopcart") /\ req.json # "none"
          /\ find_by_user_id(before, req.user_id) = {}) =>
          (resp.status = 404 /\ store = before)
    /\ (Responded("update_shopcart") /\ req.json = "ok"
          /\ find_by_user_id(before, req.user_id) # {}
          /\ req.items[1].wellformed /\ req.items[1].quantity >= 0
          /\ find(before, req.user_id, req.items[1].item_id) = {}) =>
          (resp.status = 404 /\ resp.exc = "LookupError" /\ store = before)

\* a batch entry named an item that is not in the owner's cart, which has rows
C5_Witness ==
    /\ Responded("update_shopcart") /\ req.json = "ok"
    /\ find_by_user_id(before, req.user_id) # {}
    /\ req.items[1].wellformed /\ req.items[1].quantity > 0
    /\ find(before, req.user_id, req.items[1].item_id) = {}
    /\ resp.status = 404

C7_CheckoutNoRows ==
    (Responded("checkout") /\ find_by_user_id(before, req.user_id) = {}) =>
        /\ resp.status = 400
        /\ resp.exc = "DataValidationError"
        /\ session.commits = 0
        /\ store = before

\* the owner had no rows while another owner had some
C7_Witness ==
    /\ Responded("checkout")
    /\ find_by_user_id(before, req.user_id) = {}
    /\ before # {}
    /\ resp.msg = "No cart found for user"

\* C8: a checkout for an owner whose rows all have price 0 is answered 400
\* with a DataValidationError and deletes none of the owner's rows.
C8_CheckoutZeroTotal ==
    (Responded("checkout")
       /\ find_by_user_id(before, req.user_id) # {}
       /\ \A r \in find_by_user_id(before, req.user_id) : r.price = 0) =>
        /\ resp.status = 400
        /\ resp.exc = "DataValidationError"
        /\ session.commits = 0
        /\ store = before

\* the owner had two rows, both with price 0
C8_Witness ==
    /\ Responded("checkout")
    /\ Cardinality(find_by_user_id(before, req.user_id)) = 2
    /\ \A r \in find_by_user_id(before, req.user_id) : r.price = 0
    /\ resp.msg = "Cart is empty. Nothing to checkout."

\* C9: a batch update that ends in an error because an entry is malformed, has
\* a negative quantity or names an item that is not in the cart has written
\* nothing: the table is as it was before the request.
C9_BatchErrorWritesNothing ==
    (Responded("update_shopcart") /\ resp.exc \in {"ValueError", "LookupError"}) =>
        store = before

\* C10: when a commit fails, the handler makes no further commit, the session
\* is rolled back once and holds no uncommitted change, the exception is a
\* DataValidationError, and the table is as it was before the failed call: as
\* before the request when the failed commit was the first, and with only the
\* rows of the earlier deletes gone in a checkout or a delete of a whole cart.
C10_CommitFailureRollsBack ==
    (pc = "responded" /\ req.failAt > 0) =>
        /\ resp.exc = "DataValidationError"
        /\ session.commits = req.failAt
        /\ session.rollbacks = 1
        /\ session.view = store
        /\ req.failAt = 1 => store = before
        /\ req.op \in {"checkout", "delete_shopcart"} =>
             /\ store \subseteq before
             /\ Cardinality(before \ store) = req.failAt - 1

\* the commit of an update of an existing row failed
C10_Witness ==
    /\ Responded("update_item")
    /\ req.failAt = 1
    /\ req.quantity > 0
    /\ \E old \in OldRow : old.quantity # req.quantity
    /\ resp.exc = "DataValidationError"
    /\ store = before

----------------------------------------------------------------------------
(* Concurrent requests                                                     *)
(*                                                                         *)
(* Two requests for the cart of one owner are served at the same time,     *)
(* each by a process with its own session and its own transactions.  A     *)
(* step of a process is one statement that reaches the database: a SELECT, *)
(* or the flush and COMMIT of one object.  A transaction sees what was     *)
(* committed when its statement runs.  In this specification pc, req, resp *)
(* and session are functions of the process, and before is the table the   *)
(* run started with.                                                       *)

Procs == {"p1", "p2"}

\* the keys of the owner the two requests share
ConcKeys == {k \in Keys : k[1] = 1}

ValidProducts == {pd \in ProductInputs : validate(Row(1, 1, pd.name, 1, pd.price)) = "ok"}

\* the carts the owner can have when the two requests arrive
CartTables ==
    {t \in SUBSET {Row(k[1], k[2], pd.name, q, pd.price) :
                       k \in ConcKeys, q \in 1..MaxQty, pd \in ValidProducts} :
        PrimaryKeyOk(t)}

\* what a process' session holds: the object find loaded (obj), the objects
\* find_by_user_id loaded (items), the position of finalize_cart's delete loop (k)
NoSession == [obj |-> {}, items |-> <<>>, k |-> 0]

\* as FlushUpdate, but the statement adds the change to the stored quantity
FlushUpdate_Increment(rows, old, new) ==
    LET cur == find(rows, new.user_id, new.item_id) IN
    IF cur = {} THEN [rows |-> rows, exc |-> "Exception"]
    ELSE [rows |-> (rows \ cur) \cup
                   {[r EXCEPT !.quantity = @ + new.quantity - old.quantity] : r \in cur},
          exc |-> "none"]

\* db.session.commit() in update: UPDATE shopcart SET quantity = <new.quantity>
\* WHERE <primary key>, then COMMIT.  The statement carries the quantity the
\* session computed from the object it loaded (old); an UPDATE that matches no
\* row fails the flush
FlushUpdate(rows, old, new) ==
    LET cur == find(rows, new.user_id, new.item_id) IN
    IF cur = {} THEN [rows |-> rows, exc |-> "Exception"]
    ELSE [rows |-> (rows \ cur) \cup {[r EXCEPT !.quantity = new.quantity] : r \in cur},
          exc |-> "none"]

\* as FlushInsert, but a row with the primary key is replaced
FlushInsert_Upsert(rows, row) ==
    [rows |-> (rows \ find(rows, row.user_id, row.item_id)) \cup {row}, exc |-> "none"]

\* db.session.add + commit in create: INSERT, then COMMIT; a second row with the
\* primary key fails the flush
FlushInsert(rows, row) ==
    IF find(rows, row.user_id, row.item_id) # {}
    THEN [rows |-> rows, exc |-> "Exception"]
    ELSE [rows |-> rows \cup {row}, exc |-> "none"]

\* as FlushDelete, but a DELETE that matches no row fails the flush
FlushDelete_Checked(rows, row) ==
    LET cur == find(rows, row.user_id, row.item_id) IN
    IF cur = {} THEN [rows |-> rows, exc |-> "Exception"]
    ELSE [rows |-> rows \ cur, exc |-> "none"]

\* db.session.delete + commit in delete: DELETE FROM shopcart WHERE <primary key>,
\* then COMMIT; a DELETE that matches no row is only warned about
FlushDelete(rows, row) ==
    [rows |-> rows \ find(rows, row.user_id, row.item_id), exc |-> "none"]

\* process p returns: its response is recorded
Answer(p, st, e, m, t) ==
    /\ pc' = [pc EXCEPT ![p] = "responded"]
    /\ resp' = [resp EXCEPT ![p] = [status |-> st, exc |-> e, msg |-> m, total |-> t]]

\* add_to_or_create_cart_controller: cart_item = Shopcart.find(user_id, item_id)
AddFind(p) ==
    /\ pc[p] = "start"
    /\ \E k \in ConcKeys, q \in QtyInputs, pd \in ValidProducts :
        /\ req' = [req EXCEPT ![p] =
                      [NoReq EXCEPT !.op = "add_item", !.user_id = k[1], !.item_id = k[2],
                                    !.json = "ok", !.quantity = q, !.price = pd.price,
                                    !.name = pd.name]]
        /\ session' = [session EXCEPT ![p].obj = find(store, k[1], k[2])]
    /\ pc' = [pc EXCEPT ![p] = "loaded"]
    /\ UNCHANGED <<store, before, resp>>

\* add_to_or_create_cart_controller: cart_item.quantity += quantity; update(),
\* or create() of a new object when find returned nothing
AddWrite(p) ==
    /\ pc[p] = "loaded"
    /\ LET r == req[p]
           loaded == session[p].obj
           old == CHOOSE x \in loaded : TRUE
           new == IF loaded # {} THEN [old EXCEPT !.quantity = @ + r.quantity]
                  ELSE Row(r.user_id, r.item_id, r.name, r.quantity, r.price)
           out == IF validate(new) # "ok" THEN [rows |-> store, exc |-> "ValueError"]
                  ELSE IF loaded # {} THEN FlushUpdate(store, old, new)
                  ELSE FlushInsert(store, new)
           e == IF out.exc = "Exception" THEN "DataValidationError" ELSE out.exc
       IN /\ store' = out.rows
          /\ Answer(p, AddItemStatus([exc |-> e]), e,
                    IF e = "ValueError" THEN validate(new) ELSE "", 0)
    /\ UNCHANGED <<before, req, session>>

\* finalize_cart: items = cls.find_by_user_id(user_id), the two checks and the total
ChkRead(p) ==
    /\ pc[p] = "start"
    /\ \E u \in {k[1] : k \in ConcKeys} :
       \E items \in Orders(find_by_user_id(store, u)) :
        /\ req' = [req EXCEPT ![p] = [NoReq EXCEPT !.op = "checkout", !.user_id = u]]
        /\ session' = [session EXCEPT ![p].items = items, ![p].k = 1]
        /\ IF items = <<>>
           THEN Answer(p, 400, "DataValidationError", "No cart found for user", 0)
           ELSE IF TotalPrice(items) = 0
           THEN Answer(p, 400, "DataValidationError", "Cart is empty. Nothing to checkout.", 0)
           ELSE /\ pc' = [pc EXCEPT ![p] = "deleting"]
                /\ UNCHANGED resp
    /\ UNCHANGED <<store, before>>

\* delete: logger.info(..., self.user_id, self.item_id).  After the session's
\* first commit its objects are expired and the attribute access reloads the
\* row; a row that is gone raises ObjectDeletedError, outside delete's try
ChkLoad(p) ==
    /\ pc[p] = "deleting"
    /\ LET item == session[p].items[session[p].k] IN
       IF session[p].k > 1 /\ find(store, item.user_id, item.item_id) = {}
       THEN Answer(p, CheckoutStatus([exc |-> "ObjectDeletedError"]), "ObjectDeletedError", "", 0)
       ELSE /\ pc' = [pc EXCEPT ![p] = "flushing"]
            /\ UNCHANGED resp
    /\ UNCHANGED <<store, before, req, session>>

\* delete: db.session.delete(self); db.session.commit(), and the return of
\* finalize_cart and checkout_controller after the last item
ChkDelete(p) ==
    /\ pc[p] = "flushing"
    /\ LET items == session[p].items
           k == session[p].k
           out == FlushDelete(store, items[k])
       IN /\ store' = out.rows
          /\ IF out.exc # "none"
             THEN /\ Answer(p, CheckoutStatus([exc |-> "DataValidationError"]),
                            "DataValidationError", "", 0)
                  /\ UNCHANGED session
             ELSE IF k = Len(items)
             THEN /\ Answer(p, CheckoutStatus([exc |-> "none"]), "none", "", TotalPrice(items))
                  /\ UNCHANGED session
             ELSE /\ pc' = [pc EXCEPT ![p] = "deleting"]
                  /\ session' = [session EXCEPT ![p].k = k + 1]
                  /\ UNCHANGED resp
    /\ UNCHANGED <<before, req>>

InitConc ==
    /\ store \in CartTables
    /\ before = store
    /\ pc = [p \in Procs |-> "start"]
    /\ req = [p \in Procs |-> NoReq]
    /\ resp = [p \in Procs |-> NoResp]
    /\ session = [p \in Procs |-> NoSession]

NextConc ==
    \E p \in Procs :
        \/ AddFind(p)
        \/ AddWrite(p)
        \/ ChkRead(p)
        \/ ChkLoad(p)
        \/ ChkDelete(p)

SpecConc == InitConc /\ [][NextConc]_vars

----------------------------------------------------------------------------
(* Properties of concurrent requests *)

Range(s) == {s[k] : k \in DOMAIN s}

\* p and o are the two requests, both answered, both of kind op
BothAnswered(p, o, op) ==
    /\ p # o
    /\ pc[p] = "responded" /\ pc[o] = "responded"
    /\ req[p].op = op /\ req[o].op = op

\* two checkouts that read the same cart, with rows in it and a total above zero
SameCartRead(p, o) ==
    /\ BothAnswered(p, o, "checkout")
    /\ req[p].user_id = req[o].user_id
    /\ session[p].items # <<>>
    /\ Range(session[p].items) = Range(session[o].items)
    /\ TotalPrice(session[p].items) > 0

\* C11: checkout is not atomic.  When two checkouts of one owner have both read
\* the same non-empty cart (so neither had deleted a row when the other read),
\* nothing makes the later one fail as a checkout of an empty cart: neither is
\* answered 400, each one answered 200 returns the full total of the cart as it
\* was, a cart of one row is checked out by both, and the only failure is the
\* reload of a row of a larger cart that the other request has deleted since.
C11_DoubleCheckout ==
    \A p \in Procs : \A o \in Procs :
        SameCartRead(p, o) =>
            LET cart == find_by_user_id(before, req[p].user_id) IN
            /\ Range(session[p].items) = cart
            /\ resp[p].status \in {200, 500}
            /\ resp[p].status = 200 =>
                 /\ resp[p].total = SumRows(cart)
                 /\ find_by_user_id(store, req[p].user_id) = {}
            /\ resp[p].status = 500 =>
                 /\ resp[p].exc = "ObjectDeletedError"
                 /\ Cardinality(cart) > 1
            /\ Cardinality(cart) = 1 => resp[p].status = 200 /\ resp[o].status = 200

\* both checkouts of a cart of two rows are answered 200 with the full total
C11_Witness ==
    \E p \in Procs : \E o \in Procs :
        /\ SameCartRead(p, o)
        /\ Cardinality(find_by_user_id(before, req[p].user_id)) = 2
        /\ resp[p].status = 200 /\ resp[o].status = 200
        /\ resp[p].total = SumRows(find_by_user_id(before, req[p].user_id))
        /\ resp[o].total = resp[p].total
        /\ resp[p].total > 0

\* two add-item requests for one existing row that both loaded it as it was
\* at the start and were both answered 201
SameRowRead(p, o) ==
    /\ BothAnswered(p, o, "add_item")
    /\ req[p].item_id = req[o].item_id /\ req[p].user_id = req[o].user_id
    /\ session[p].obj # {}
    /\ session[p].obj = find(before, req[p].user_id, req[p].item_id)
    /\ session[o].obj = session[p].obj
    /\ resp[p].status = 201 /\ resp[o].status = 201

\* C12: add-item is find, increment, commit without a lock.  When two add-item
\* requests of quantities q1 and q2 for one existing row have both read the
\* row before either wrote it, the final quantity is old+q1 or old+q2: the
\* later write replaces the earlier one, and with q1, q2 > 0 the final
\* quantity is not old+q1+q2.
C12_LostUpdate ==
    \A p \in Procs : \A o \in Procs :
        SameRowRead(p, o) =>
            \E old \in session[p].obj :
            \E now \in find(store, req[p].user_id, req[p].item_id) :
                /\ now.quantity \in {old.quantity + req[p].quantity,
                                     old.quantity + req[o].quantity}
                /\ (req[p].quantity > 0 /\ req[o].quantity > 0) =>
                      now.quantity # old.quantity + req[p].quantity + req[o].quantity
                /\ now.price = old.price /\ now.description = old.description

\* quantities 1 and 2 were added to a row of quantity 1 and the row ends with 2
C12_Witness ==
    \E p \in Procs : \E o \in Procs :
        /\ SameRowRead(p, o)
        /\ req[p].quantity = 1 /\ req[o].quantity = 2
        /\ \E old \in session[p].obj : old.quantity = 1
        /\ \E now \in find(store, req[p].user_id, req[p].item_id) : now.quantity = 2

----------------------------------------------------------------------------
(* Query strings                                                           *)
(*                                                                         *)
(* The value of a query parameter is a string, modelled as the sequence of *)
(* its characters, so that startswith, split, join, lower and the          *)
(* conversions to numbers and dates work on the characters as they do in   *)
(* the source.                                                             *)

\* str.lower on one character
LowerChar(c) ==
    CASE c = "G" -> "g"
      [] c = "L" -> "l"
      [] c = "T" -> "t"
      [] c = "E" -> "e"
      [] c = "X" -> "x"
      [] OTHER -> c

lower(s) == [k \in DOMAIN s |-> LowerChar(s[k])]

startswith(s, c) == Len(s) > 0 /\ s[1] = c

\* "c in s"
Contains(s, c) == \E k \in DOMAIN s : s[k] = c

\* s.split(sep) for a separator of one character: the list of the segments
RECURSIVE split(_, _)
split(s, sep) ==
    IF ~Contains(s, sep) THEN <<s>>
    ELSE LET k == CHOOSE j \in DOMAIN s : s[j] = sep /\ \A h \in 1..(j - 1) : s[h] # sep
         IN <<SubSeq(s, 1, k - 1)>> \o split(SubSeq(s, k + 1, Len(s)), sep)

\* sep.join(parts)
RECURSIVE join(_, _)
join(parts, sep) ==
    IF parts = <<>> THEN <<>>
    ELSE IF Len(parts) = 1 THEN parts[1]
    ELSE parts[1] \o <<sep>> \o join(Tail(parts), sep)

\* ["lt", "lte", "gt", "gte"], each with the name the filters carry it by
OperatorNames ==
    (<<"l", "t">> :> "lt") @@ (<<"l", "t", "e">> :> "lte") @@
    (<<"g", "t">> :> "gt") @@ (<<"g", "t", "e">> :> "gte")

\* what parse_operator_value returns, or the ValueError it raises
Parsed(op, v) == [exc |-> "none", msg |-> "", operator |-> op, value |-> v]
ParseError(m, arg) == [exc |-> "ValueError", msg |-> m, operator |-> "", value |-> arg]

\* as parse_operator_value, but the operand is the third segment alone
parse_operator_value_ThirdSegment(value_string) ==
    IF ~startswith(value_string, "~") THEN Parsed("eq", value_string)
    ELSE LET parts == split(value_string, "~") IN
         IF Len(parts) < 3 THEN ParseError("Invalid operator format", value_string)
         ELSE LET operator == lower(parts[2])
                  value == parts[3]
              IN IF operator \notin DOMAIN OperatorNames
                 THEN ParseError("Unsupported operator", operator)
                 ELSE Parsed(OperatorNames[operator], value)

\* as parse_operator_value, but the operator is checked before the segments are counted
parse_operator_value_OperatorFirst(value_string) ==
    IF ~startswith(value_string, "~") THEN Parsed("eq", value_string)
    ELSE LET parts == split(value_string, "~")
             operator == lower(parts[2])
         IN IF operator \notin DOMAIN OperatorNames
            THEN ParseError("Unsupported operator", operator)
            ELSE IF Len(parts) < 3 THEN ParseError("Invalid operator format", value_string)
            ELSE Parsed(OperatorNames[operator], join(SubSeq(parts, 3, Len(parts)), "~"))

\* helpers.parse_operator_value
parse_operator_value(value_string) ==
    IF ~startswith(value_string, "~") THEN Parsed("eq", value_string)
    ELSE LET parts == split(value_string, "~") IN
         IF Len(parts) < 3 THEN ParseError("Invalid operator format", value_string)
         ELSE LET operator == lower(parts[2])
                  value == join(SubSeq(parts, 3, Len(parts)), "~")
              IN IF operator \notin DOMAIN OperatorNames
                 THEN ParseError("Unsupported operator", operator)
                 ELSE Parsed(OperatorNames[operator], value)

----------------------------------------------------------------------------
(* The filters of a query *)

\* filter_fields of extract_item_filters, in its order
FilterFields ==
    <<"user_id", "quantity", "price", "created_at", "last_updated", "description", "item_id">>

\* one entry of the filters dict: filters[field] = {"operator": op, "value": v};
\* islist tells a list value from a string
Filter(f, op, islist, v) == [field |-> f, operator |-> op, islist |-> islist, value |-> v]

\* what extract_item_filters returns (the dict, as the list of its entries in
\* insertion order), or the ValueError it raises
Extracted(filters) == [exc |-> "none", msg |-> "", field |-> "", filters |-> filters]
ExtractError(f, m) == [exc |-> "ValueError", msg |-> m, field |-> f, filters |-> <<>>]

\* str.strip
RECURSIVE strip(_)
strip(s) ==
    IF s # <<>> /\ s[1] = " " THEN strip(Tail(s))
    ELSE IF s # <<>> /\ s[Len(s)] = " " THEN strip(SubSeq(s, 1, Len(s) - 1))
    ELSE s

\* as ExtractFrom, but the elements of a list are stripped of surrounding whitespace
RECURSIVE ExtractFrom_Stripped(_, _, _)
ExtractFrom_Stripped(request_args, fields, filters) ==
    IF fields = <<>> THEN Extracted(filters)
    ELSE LET field == Head(fields) IN
         IF field \notin DOMAIN request_args
         THEN ExtractFrom_Stripped(request_args, Tail(fields), filters)
         ELSE LET value_string == request_args[field] IN
              IF Contains(value_string, ",")
              THEN LET values == split(value_string, ",")
                       stripped == [k \in DOMAIN values |-> strip(values[k])]
                   IN ExtractFrom_Stripped(request_args, Tail(fields),
                                           Append(filters, Filter(field, "in", TRUE, stripped)))
              ELSE LET p == parse_operator_value(value_string) IN
                   IF p.exc # "none" THEN ExtractError(field, p.msg)
                   ELSE ExtractFrom_Stripped(request_args, Tail(fields),
                            Append(filters, Filter(field, p.operator, FALSE, p.value)))

\* extract_item_filters: the loop over the fields that are still to be looked at
RECURSIVE ExtractFrom(_, _, _)
ExtractFrom(request_args, fields, filters) ==
    IF fields = <<>> THEN Extracted(filters)
    ELSE LET field == Head(fields) IN
         IF field \notin DOMAIN request_args
         THEN ExtractFrom(request_args, Tail(fields), filters)
         ELSE LET value_string == request_args[field] IN
              IF Contains(value_string, ",")
              THEN LET values == split(value_string, ",")
                   IN ExtractFrom(request_args, Tail(fields),
                                  Append(filters, Filter(field, "in", TRUE, values)))
              ELSE LET p == parse_operator_value(value_string) IN
                   IF p.exc # "none" THEN ExtractError(field, p.msg)
                   ELSE ExtractFrom(request_args, Tail(fields),
                            Append(filters, Filter(field, p.operator, FALSE, p.value)))

\* helpers.extract_item_filters
extract_item_filters(request_args) == ExtractFrom(request_args, FilterFields, <<>>)

----------------------------------------------------------------------------
(* The conversions of filter values (type_converters) *)

Digits == <<"0", "1", "2", "3", "4", "5", "6", "7", "8", "9">>

IsDigit(c) == \E k \in DOMAIN Digits : Digits[k] = c

DigitVal(c) == (CHOOSE k \in DOMAIN Digits : Digits[k] = c) - 1

AllDigits(s) == \A k \in DOMAIN s : IsDigit(s[k])

\* the number a string of digits denotes
RECURSIVE Number(_)
Number(ds) ==
    IF ds = <<>> THEN 0
    ELSE 10 * Number(SubSeq(ds, 1, Len(ds) - 1)) + DigitVal(ds[Len(ds)])

\* str(n) for n >= 0
RECURSIVE str(_)
str(n) ==
    IF n < 10 THEN <<Digits[n + 1]>>
    ELSE str(n \div 10) \o <<Digits[(n % 10) + 1]>>

\* the result of a conversion: the value, or ValueError
Converted(v) == [ok |-> TRUE, v |-> v]
NotConverted == [ok |-> FALSE, v |-> 0]

Signed(s) == s # <<>> /\ s[1] \in {"-", "+"}
Unsigned(s) == IF Signed(s) THEN Tail(s) ELSE s
Sign(s) == IF s # <<>> /\ s[1] = "-" THEN -1 ELSE 1

\* int(s): surrounding whitespace, a sign, digits
int(s) ==
    LET t == strip(s)
        ds == Unsigned(t)
    IN IF ds = <<>> \/ ~AllDigits(ds) THEN NotConverted
       ELSE Converted(Sign(t) * Number(ds))

\* the thousandths a fraction of at most three digits denotes
Thousandths(fs) ==
    Number(SubSeq(fs \o <<"0", "0", "0">>, 1, 3))

\* float(s), in thousandths: surrounding whitespace, a sign, digits with at
\* most one point.  (Exponents, "inf" and "nan", and fractions of more than
\* three digits, do not occur in the strings explored.)
float(s) ==
    LET t == strip(s)
        parts == split(Unsigned(t), ".")
        whole == parts[1]
        frac == IF Len(parts) > 1 THEN parts[2] ELSE <<>>
    IN IF Len(parts) > 2 \/ ~AllDigits(whole) \/ ~AllDigits(frac)
          \/ (whole = <<>> /\ frac = <<>>)
       THEN NotConverted
       ELSE Converted(Sign(t) * (Number(whole) * 1000 + Thousandths(frac)))

\* the days of a month (February of a year that is no leap year)
DaysIn(m) == IF m = 2 THEN 28 ELSE IF m \in {4, 6, 9, 11} THEN 30 ELSE 31

\* A point in time is a number that grows with time: the digits of its date,
\* yyyymmdd, followed by one digit for the time of the day (0 is midnight)
Midnight(y, m, d) == ((y * 100 + m) * 100 + d) * 10

\* datetime.fromisoformat(s) for a date YYYY-MM-DD; every other string explored
\* is one it rejects
fromisoformat(s) ==
    IF Len(s) # 10 \/ s[5] # "-" \/ s[8] # "-" THEN NotConverted
    ELSE LET ys == SubSeq(s, 1, 4)
             ms == SubSeq(s, 6, 7)
             ds == SubSeq(s, 9, 10)
         IN IF ~AllDigits(ys \o ms \o ds) THEN NotConverted
            ELSE IF Number(ys) < 1 \/ Number(ms) \notin 1..12
                    \/ Number(ds) \notin 1..DaysIn(Number(ms))
            THEN NotConverted
            ELSE Converted(Midnight(Number(ys), Number(ms), Number(ds)))

\* type_converters[field](v); description has no converter
Convert(field, v) ==
    CASE field = "price" -> float(v)
      [] field \in {"quantity", "user_id", "item_id"} -> int(v)
      [] field \in {"created_at", "last_updated"} -> fromisoformat(v)
      [] OTHER -> Converted(v)

\* [type_converters[field](v) for v in value]
ConvertAll(field, vs) == [k \in DOMAIN vs |-> Convert(field, vs[k])]

----------------------------------------------------------------------------
(* Shopcart._build_filter_conditions and Shopcart.find_all_with_filter *)

\* the characters of the strings explored, in the order of their code points
CharOrder ==
    <<" ", ",", "-", ".", "0", "1", "2", "3", "4", "5", "6", "7", "8", "9",
      "E", "G", "L", "T", "X", "a", "b", "c", "e", "g", "l", "t", "x", "~">>

Rank(c) == CHOOSE k \in DOMAIN CharOrder : CharOrder[k] = c

\* a < b for two strings
RECURSIVE StrLess(_, _)
StrLess(a, b) ==
    IF b = <<>> THEN FALSE
    ELSE IF a = <<>> THEN TRUE
    ELSE IF a[1] = b[1] THEN StrLess(Tail(a), Tail(b))
    ELSE Rank(a[1]) < Rank(b[1])

\* x < y for two values of a field: numbers, points in time, or strings
Less(field, x, y) == IF field = "description" THEN StrLess(x, y) ELSE x < y

\* one condition of the query: model_attr <cmp> value
Cond(f, cmp, v) == [field |-> f, cmp |-> cmp, value |-> v]

\* what _build_filter_conditions returns, or the ValueError it raises
Built(conditions) == [exc |-> "none", msg |-> "", field |-> "", conditions |-> conditions]
BuildError(f, m) == [exc |-> "ValueError", msg |-> m, field |-> f, conditions |-> <<>>]

\* as RangeConditions, but the ends are not compared
RangeConditions_Unordered(field, value) ==
    Built(<<Cond(field, ">=", value[1]), Cond(field, "<=", value[2])>>)

\* case "range", for a list of two converted values
RangeConditions(field, value) ==
    IF Less(field, value[2], value[1])
    THEN BuildError(field, "min value cannot be greater than max value in _range")
    ELSE Built(<<Cond(field, ">=", value[1]), Cond(field, "<=", value[2])>>)

\* _build_filter_conditions: match operator, for the entry f of the dict and
\* its converted value
MatchOperator(f, value) ==
    CASE f.operator = "eq"  -> Built(<<Cond(f.field, "==", value)>>)
      [] f.operator = "lt"  -> Built(<<Cond(f.field, "<", value)>>)
      [] f.operator = "lte" -> Built(<<Cond(f.field, "<=", value)>>)
      [] f.operator = "gt"  -> Built(<<Cond(f.field, ">", value)>>)
      [] f.operator = "gte" -> Built(<<Cond(f.field, ">=", value)>>)
      [] f.operator = "in"  ->
            IF f.islist THEN Built(<<Cond(f.field, "in", value)>>)
            ELSE BuildError(f.field, "Invalid 'in' operator value")
      [] f.operator = "range" ->
            IF f.islist /\ Len(value) = 2 THEN RangeConditions(f.field, value)
            ELSE BuildError(f.field, "Invalid 'range' operator value")
      [] OTHER -> BuildError(f.field, "Unsupported operator")

\* as MatchConverted, but only the first conversion is looked at
MatchConverted_FirstOnly(f, conv) ==
    IF ~conv[1].ok THEN BuildError(f.field, "Invalid value for")
    ELSE MatchOperator(f, IF f.islist THEN [k \in DOMAIN conv |-> conv[k].v] ELSE conv[1].v)

\* _build_filter_conditions: the try around the conversion; conv is the list of
\* the conversions of the entry's value or values
MatchConverted(f, conv) ==
    IF \E k \in DOMAIN conv : ~conv[k].ok THEN BuildError(f.field, "Invalid value for")
    ELSE MatchOperator(f, IF f.islist THEN [k \in DOMAIN conv |-> conv[k].v] ELSE conv[1].v)

\* _build_filter_conditions: the body of the loop, for one entry of the dict
BuildOne(f) ==
    MatchConverted(f, IF f.islist THEN ConvertAll(f.field, f.value)
                      ELSE <<Convert(f.field, f.value)>>)

RECURSIVE BuildFrom(_, _)

\* the loop goes on after the entry whose conditions are b, or ends with its error
BuildNext(b, filters, conditions) ==
    IF b.exc # "none" THEN b
    ELSE BuildFrom(filters, conditions \o b.conditions)

\* _build_filter_conditions: the loop over the entries still to be looked at
BuildFrom(filters, conditions) ==
    IF filters = <<>> THEN Built(conditions)
    ELSE BuildNext(BuildOne(Head(filters)), Tail(filters), conditions)

build_filter_conditions(filters) == BuildFrom(filters, <<>>)

\* the value of one condition on one row
Eval(r, c) ==
    LET x == r[c.field] IN
    CASE c.cmp = "==" -> x = c.value
      [] c.cmp = "<"  -> Less(c.field, x, c.value)
      [] c.cmp = "<=" -> x = c.value \/ Less(c.field, x, c.value)
      [] c.cmp = ">"  -> Less(c.field, c.value, x)
      [] c.cmp = ">=" -> x = c.value \/ Less(c.field, c.value, x)
      [] c.cmp = "in" -> \E k \in DOMAIN c.value : c.value[k] = x

\* as Filtered, but a row is returned when it satisfies one of the conditions
Filtered_Any(rows, conditions) ==
    {r \in rows : \E k \in DOMAIN conditions : Eval(r, conditions[k])}

\* query.filter(*filter_conditions).all()
Filtered(rows, conditions) ==
    {r \in rows : \A k \in DOMAIN conditions : Eval(r, conditions[k])}

\* what a query returns, or the ValueError raised before it ran
Found(items) == [exc |-> "none", msg |-> "", field |-> "", items |-> items, queried |-> TRUE]
NotQueried(e) == [exc |-> e.exc, msg |-> e.msg, field |-> e.field, items |-> {}, queried |-> FALSE]

\* find_all_with_filter once _build_filter_conditions has returned or raised b
FilterQuery(rows, b) ==
    IF b.exc # "none" THEN NotQueried(b)
    ELSE Found(Filtered(rows, b.conditions))

\* Shopcart.find_all_with_filter
find_all_with_filter(rows, filters) ==
    IF filters = <<>> THEN Found(rows)
    ELSE FilterQuery(rows, build_filter_conditions(filters))

----------------------------------------------------------------------------
(* GET /shopcarts and GET /shopcarts/<user_id> *)

\* the response of a GET: the status, the error, the rows returned, the dict
\* extract_item_filters returned (filters) and the dict the query was given
\* (applied)
GetResp(st, r, items, filters, applied) ==
    [status |-> st, exc |-> r.exc, msg |-> r.msg, field |-> r.field, items |-> items,
     filters |-> filters, applied |-> applied]

NoError == [exc |-> "none", msg |-> "", field |-> ""]

\* as Queried, but an empty result is answered 200 with no rows
Queried_EmptyList(q, filters, applied, notfound) ==
    IF q.exc # "none" THEN GetResp(400, q, {}, filters, applied)
    ELSE GetResp(200, NoError, q.items, filters, applied)

\* the answer to a query q that ran with the dict applied, or raised; notfound
\* tells whether an empty result is answered 404
Queried(q, filters, applied, notfound) ==
    IF q.exc # "none" THEN GetResp(400, q, {}, filters, applied)
    ELSE IF notfound /\ q.items = {}
    THEN GetResp(404, [NoError EXCEPT !.exc = "NotFound"], {}, filters, applied)
    ELSE GetResp(200, NoError, q.items, filters, applied)

\* get_shopcarts_controller once extract_item_filters has returned or raised e
ListExtracted(rows, e) ==
    IF e.exc # "none" THEN GetResp(400, e, {}, <<>>, <<>>)
    ELSE Queried(find_all_with_filter(rows, e.filters), e.filters, e.filters, FALSE)

\* get_shopcarts_controller; request_args is request.args
get_shopcarts(rows, request_args) ==
    IF DOMAIN request_args = {} THEN GetResp(200, NoError, rows, <<>>, <<>>)
    ELSE ListExtracted(rows, extract_item_filters(request_args))

\* as SetItem, but an entry the dict has for the field is kept
SetItem_Kept(filters, entry) ==
    IF \E k \in DOMAIN filters : filters[k].field = entry.field
    THEN filters
    ELSE Append(filters, entry)

\* filters[field] = entry: an entry of the field is replaced where it stands,
\* a new one comes last
SetItem(filters, entry) ==
    IF \E k \in DOMAIN filters : filters[k].field = entry.field
    THEN [k \in DOMAIN filters |->
              IF filters[k].field = entry.field THEN entry ELSE filters[k]]
    ELSE Append(filters, entry)

\* get_user_shopcart_controller once the dict of the query is made: filters is
\* what extract_item_filters returned, applied is the dict with the owner's entry
ReadFiltered(rows, filters, applied) ==
    Queried(find_all_with_filter(rows, applied), filters, applied, TRUE)

\* get_user_shopcart_controller once extract_item_filters has returned or raised e
ReadExtracted(rows, user_id, e) ==
    IF e.exc # "none" THEN GetResp(400, e, {}, <<>>, <<>>)
    ELSE ReadFiltered(rows, e.filters,
                      SetItem(e.filters, Filter("user_id", "eq", FALSE, str(user_id))))

\* get_user_shopcart_controller
get_user_shopcart(rows, user_id, request_args) ==
    IF DOMAIN request_args # {}
    THEN ReadExtracted(rows, user_id, extract_item_filters(request_args))
    ELSE Queried(Found(find_by_user_id(rows, user_id)), <<>>, <<>>, TRUE)

\* a GET handler has run: it wrote nothing
RespondGet(r, rsp) ==
    /\ pc' = "responded"
    /\ req' = r
    /\ resp' = rsp
    /\ before' = store
    /\ session' = NewCtx(store)
    /\ UNCHANGED store

\* a row of the table with its description as a string and its two time stamps
QRow(u, i, d, q, p, c, l) ==
    [user_id |-> u, item_id |-> i, description |-> d, quantity |-> q, price |-> p,
     created_at |-> c, last_updated |-> l]

\* the rows the queries run on: prices 10.00 and 50.00, made and updated on the
\* first two days of 2025, at midnight or later in the day
QueryRows ==
    { QRow(1, 1, <<"a">>, 1, 10000, Midnight(2025, 1, 1), Midnight(2025, 1, 1) + 5),
      QRow(1, 2, <<"b">>, 2, 50000, Midnight(2025, 1, 1) + 5, Midnight(2025, 1, 2)),
      QRow(2, 1, <<"a">>, 2, 10000, Midnight(2025, 1, 2), Midnight(2025, 1, 2)) }

QueryTables == SUBSET QueryRows

----------------------------------------------------------------------------
(* The operator parser on its own: one value string, handed to              *)
(* parse_operator_value and to GET /shopcarts as the value of one field     *)

MaxRest == 3

RECURSIVE Concat(_)
Concat(ts) == IF ts = <<>> THEN <<>> ELSE Head(ts) \o Concat(Tail(ts))

\* what stands where the operator is expected
OperatorTokens ==
    { <<>>, <<"l", "t">>, <<"l", "t", "e">>, <<"g", "t">>, <<"g", "t", "e">>,
      <<"G", "t", "E">>, <<"L", "T">>, <<"x", "x">>, <<"5">> }

RestTokens == { <<"~">>, <<"5">>, <<"g", "t">> }

RestStrings == {Concat(ts) : ts \in UNION {[1..n -> RestTokens] : n \in 0..MaxRest}}

\* the value strings explored: [~] token [~] rest
InputStrings ==
    {pre \o op \o mid \o rest :
        pre \in {<<>>, <<"~">>}, op \in OperatorTokens, mid \in {<<>>, <<"~">>},
        rest \in RestStrings}

\* parse_operator_value(value_string)
ParseValue ==
    /\ pc = "idle"
    /\ RespondGet([req EXCEPT !.op = "parse"], parse_operator_value(req.value))

\* GET /shopcarts?<field>=<value_string>
ListWithValue ==
    /\ pc = "idle"
    /\ \E k \in DOMAIN FilterFields :
        LET args == FilterFields[k] :> req.value
        IN RespondGet([req EXCEPT !.op = "list", !.field = FilterFields[k]],
                      get_shopcarts(store, args))

InitParse ==
    /\ store = QueryRows
    /\ pc = "idle"
    /\ req \in {[op |-> "none", field |-> "", value |-> s] : s \in InputStrings}
    /\ resp = NoResp
    /\ before = {}
    /\ session = NewCtx({})

NextParse ==
    \/ ParseValue
    \/ ListWithValue

SpecParse == InitParse /\ [][NextParse]_vars

\* the spellings of the four operators that occur in the value strings
Spellings ==
    (<<"l", "t">> :> "lt") @@ (<<"l", "t", "e">> :> "lte") @@ (<<"g", "t">> :> "gt") @@
    (<<"g", "t", "e">> :> "gte") @@ (<<"G", "t", "E">> :> "gte") @@ (<<"L", "T">> :> "lt")

\* C13: the operator parser maps a string with no leading '~' to (eq, the
\* string unchanged), and a string ~<op>~<rest> with op one of lt, lte, gt, gte
\* in any letter case to (op lower-cased, rest), where rest keeps every later
\* '~'; "~gt~5" gives (gt, "5") and "5" gives (eq, "5").
C13_ParseOperator ==
    (pc = "responded" /\ req.op = "parse") =>
        LET v == req.value IN
        /\ ~startswith(v, "~") => resp = Parsed("eq", v)
        /\ \A op \in DOMAIN Spellings : \A k \in 0..Len(v) :
             LET rest == SubSeq(v, Len(v) - k + 1, Len(v)) IN
             v = <<"~">> \o op \o <<"~">> \o rest => resp = Parsed(Spellings[op], rest)
        /\ v = <<"~", "g", "t", "~", "5">> => resp = Parsed("gt", <<"5">>)
        /\ v = <<"5">> => resp = Parsed("eq", <<"5">>)

\* "~GtE~5~5" is parsed to (gte, "5~5")
C13_Witness ==
    /\ pc = "responded" /\ req.op = "parse"
    /\ req.value = <<"~", "G", "t", "E", "~", "5", "~", "5">>
    /\ resp = Parsed("gte", <<"5", "~", "5">>)

\* the number of '~' in a string
Tildes(v) == Cardinality({k \in DOMAIN v : v[k] = "~"})

\* what stands between the first '~' and the second
Token(v) ==
    LET k == CHOOSE j \in 2..Len(v) : v[j] = "~" /\ \A h \in 2..(j - 1) : v[h] # "~"
    IN SubSeq(v, 2, k - 1)

\* the error a value string that starts with '~' must end in: "none" for none
ParseFault(v) ==
    IF Tildes(v) < 2 THEN "Invalid operator format"
    ELSE IF lower(Token(v)) \notin DOMAIN OperatorNames THEN "Unsupported operator"
    ELSE "none"

\* C14: for a string that starts with '~', the parser fails with the
\* invalid-operator-format error when the string has fewer than three
\* '~'-delimited segments, and with the unsupported-operator error when
\* the operator token is none of lt, lte, gt, gte; then no filter is produced
\* and the request that carried the string as the value of a field is
\* answered 400 with that error, without records.
C14_ParseErrors ==
    (pc = "responded" /\ startswith(req.value, "~") /\ ParseFault(req.value) # "none") =>
        /\ resp.exc = "ValueError"
        /\ resp.msg = ParseFault(req.value)
        /\ req.op = "list" =>
             /\ resp.status = 400
             /\ resp.field = req.field
             /\ resp.filters = <<>>
             /\ resp.items = {}

\* GET /shopcarts?quantity=~xx~5 is answered 400, unsupported operator
C14_Witness ==
    /\ pc = "responded" /\ req.op = "list" /\ req.field = "quantity"
    /\ req.value = <<"~", "x", "x", "~", "5">>
    /\ resp.status = 400
    /\ resp.msg = "Unsupported operator"

----------------------------------------------------------------------------
(* GET /shopcarts and GET /shopcarts/<user_id> with query parameters: the   *)
(* seven fields, their _range forms, min-price and max-price                *)

MaxArgs == 2

\* F_range, for a field F
RangeParam(F) == F \o "_range"

\* the values a query gives to a parameter
ParamValues ==
    ("user_id" :> {<<"1">>, <<"1", ",", "2">>}) @@
    ("quantity" :> {<<"2">>, <<"~", "g", "t", "e", "~", "2">>, <<"1", ",", " ", "2">>}) @@
    ("price" :> {<<"1", "0">>, <<"~", "g", "t", "e", "~", "4", "0">>, <<"1", "0", ",", "5", "0">>}) @@
    ("created_at" :> {<<"2", "0", "2", "5", "-", "0", "1", "-", "0", "1">>, <<"~", "l", "t", "~", "2", "0", "2", "5", "-", "0", "1", "-", "0", "2">>}) @@
    ("last_updated" :> {<<"2", "0", "2", "5", "-", "0", "1", "-", "0", "2">>, <<"2", "0", "2", "5", "-", "0", "1", "-", "0", "2", ",", " ", "2", "0", "2", "5", "-", "0", "1", "-", "0", "1">>}) @@
    ("description" :> {<<"a">>, <<"a", ",", " ", "b">>}) @@
    ("item_id" :> {<<"1">>, <<"1", ",", " ", "2">>}) @@
    ("user_id_range" :> {<<"1", ",", "2">>, <<"2">>}) @@
    ("quantity_range" :> {<<"1", ",", "2">>, <<"2">>}) @@
    ("price_range" :> {<<"1", "0", ",", "5", "0">>, <<"4", "0">>}) @@
    ("created_at_range" :> {<<"2", "0", "2", "5", "-", "0", "1", "-", "0", "1", ",", "2", "0", "2", "5", "-", "0", "1", "-", "0", "2">>, <<"2", "0", "2", "5", "-", "0", "1", "-", "0", "1">>}) @@
    ("last_updated_range" :> {<<"2", "0", "2", "5", "-", "0", "1", "-", "0", "1", ",", "2", "0", "2", "5", "-", "0", "1", "-", "0", "2">>, <<"2", "0", "2", "5", "-", "0", "1", "-", "0", "2">>}) @@
    ("description_range" :> {<<"a", ",", "b">>, <<"a">>}) @@
    ("item_id_range" :> {<<"1", ",", "2">>, <<"1", ",", "2", ",", "3">>}) @@
    ("min-price" :> {<<"1", "0">>, <<"4", "0">>, <<"c", "h", "e", "a", "p">>}) @@
    ("max-price" :> {<<"1", "0">>, <<"5", "0">>})

\* the query strings that give a value to each parameter of P
RECURSIVE ArgsOver(_)
ArgsOver(P) ==
    IF P = {} THEN {<<>>}
    ELSE LET p == CHOOSE x \in P : TRUE
         IN {(p :> v) @@ f : v \in ParamValues[p], f \in ArgsOver(P \ {p})}

\* request.args: up to MaxArgs parameters
QueryArgs ==
    UNION {ArgsOver(P) : P \in {Q \in SUBSET DOMAIN ParamValues : Cardinality(Q) <= MaxArgs}}

GetReq(op, u, args) == [op |-> op, user_id |-> u, args |-> args]

\* GET /shopcarts?<args>
ListShopcarts ==
    /\ pc = "idle"
    /\ \E args \in QueryArgs :
        RespondGet(GetReq("list", 0, args), get_shopcarts(store, args))

\* GET /shopcarts/<user_id>?<args>
ReadShopcart ==
    /\ pc = "idle"
    /\ \E u \in Users : \E args \in QueryArgs :
        RespondGet(GetReq("read", u, args), get_user_shopcart(store, u, args))

InitGet ==
    /\ store \in QueryTables
    /\ pc = "idle"
    /\ req = NoReq
    /\ resp = NoResp
    /\ before = {}
    /\ session = NewCtx({})

NextGet ==
    \/ ListShopcarts
    \/ ReadShopcart
    \/ Teardown

SpecGet == InitGet /\ [][NextGet]_vars

----------------------------------------------------------------------------
(* Properties of the query parameters *)

\* a GET has been answered
GetAnswered == pc = "responded" /\ req.op \in {"list", "read"}

\* extract_item_filters raised: the request is answered 400 and no dict was
\* handed to the query
ExtractFailed == resp.status = 400 /\ resp.applied = <<>>

\* the dict extract_item_filters returned holds the entry f
HasFilter(f) == \E j \in DOMAIN resp.filters : resp.filters[j] = f

\* C15: for every filterable field F, when the query carries F_range the
\* filter extractor produces {operator: range, value: [lo, hi]} for F if the
\* value splits on commas into exactly two parts, and otherwise the request
\* fails with an invalid-range-format error that names F_range (400).
C15_RangeParameter ==
    GetAnswered =>
        \A k \in DOMAIN FilterFields :
            LET F == FilterFields[k]
                R == RangeParam(F)
            IN R \in DOMAIN req.args =>
                 IF Len(split(req.args[R], ",")) = 2
                 THEN ~ExtractFailed =>
                          HasFilter(Filter(F, "range", TRUE, split(req.args[R], ",")))
                 ELSE /\ resp.status = 400
                      /\ resp.exc = "ValueError"
                      /\ resp.msg = "Invalid range format"
                      /\ resp.field = R

\* the elements of a list, each without its surrounding whitespace
Trimmed(values) == [k \in DOMAIN values |-> strip(values[k])]

\* a field that the query does not name is not in the dict, and the dict has
\* no key outside the seven fields
OnlyNamedFields ==
    /\ \A k \in DOMAIN FilterFields :
         FilterFields[k] \notin DOMAIN req.args =>
             ~\E j \in DOMAIN resp.filters : resp.filters[j].field = FilterFields[k]
    /\ \A j \in DOMAIN resp.filters : resp.filters[j].field \in Range(FilterFields)

\* C16 as stated: when parameter F is present and its value contains a comma,
\* the filter extractor produces {operator: in, value: list} where the list is
\* the value split on commas with each element trimmed of surrounding
\* whitespace; an absent F is not in the output mapping, and no key outside
\* the allow-list appears.
C16_ListTrimmed ==
    (GetAnswered /\ ~ExtractFailed) =>
        /\ \A k \in DOMAIN FilterFields :
             LET F == FilterFields[k] IN
             (F \in DOMAIN req.args /\ Contains(req.args[F], ",")) =>
                 HasFilter(Filter(F, "in", TRUE, Trimmed(split(req.args[F], ","))))
        /\ OnlyNamedFields

\* C16, amended: when parameter F is present and its value contains a comma,
\* the filter extractor produces {operator: in, value: list} where the list
\* holds the pieces of the value between its commas exactly as they stand,
\* surrounding whitespace included ("a, b" gives "a" and " b"); an absent F
\* is not in the output mapping, and no key outside the allow-list appears.
C16_ListSplit ==
    (GetAnswered /\ ~ExtractFailed) =>
        /\ \A k \in DOMAIN FilterFields :
             LET F == FilterFields[k] IN
             (F \in DOMAIN req.args /\ Contains(req.args[F], ",")) =>
                 /\ \E j \in DOMAIN resp.filters :
                      /\ resp.filters[j].field = F
                      /\ resp.filters[j].operator = "in"
                      /\ resp.filters[j].islist
                      /\ join(resp.filters[j].value, ",") = req.args[F]
                      /\ \A h \in DOMAIN resp.filters[j].value :
                           ~Contains(resp.filters[j].value[h], ",")
                 /\ req.args[F] = <<"a", ",", " ", "b">> =>
                      HasFilter(Filter(F, "in", TRUE, << <<"a">>, <<" ", "b">> >>))
        /\ OnlyNamedFields

\* GET /shopcarts/1?description=a, b asks for the descriptions "a" and " b",
\* and gets the row described "a" but not the one described "b"
C16_Witness ==
    /\ pc = "responded" /\ req.op = "read" /\ req.user_id = 1
    /\ before = QueryRows
    /\ DOMAIN req.args = {"description"}
    /\ req.args["description"] = <<"a", ",", " ", "b">>
    /\ resp.status = 200
    /\ HasFilter(Filter("description", "in", TRUE, << <<"a">>, <<" ", "b">> >>))
    /\ resp.items = {r \in QueryRows : r.user_id = 1 /\ r.description = <<"a">>}

\* C17: a request that supplies a price filter (price or price_range)
\* together with min-price or max-price fails with a conflict error (400)
\* that names both syntaxes, whatever the values are, and returns no records.
C17_PriceConflict ==
    (/\ GetAnswered
     /\ {"price", "price_range"} \cap DOMAIN req.args # {}
     /\ {"min-price", "max-price"} \cap DOMAIN req.args # {}) =>
        /\ resp.status = 400
        /\ resp.exc = "ValueError"
        /\ resp.msg = "Cannot use both 'price' or 'price_range' and 'min-price'/'max-price'"
        /\ resp.items = {}

\* C18: the legacy aliases bound the price: with min-price=a and max-price=b
\* the result holds exactly the records with a <= price <= b, with only
\* min-price=a exactly those with price >= a, with only max-price=b exactly
\* those with price <= b, on the listing of all carts and on the read of one
\* owner's cart.
C18_LegacyPriceBounds ==
    (/\ GetAnswered
     /\ DOMAIN req.args # {}
     /\ DOMAIN req.args \subseteq {"min-price", "max-price"}
     /\ \A p \in DOMAIN req.args : float(req.args[p]).ok) =>
        LET scope == IF req.op = "list" THEN before
                     ELSE find_by_user_id(before, req.user_id)
            InBounds(r) ==
                /\ "min-price" \in DOMAIN req.args => r.price >= float(req.args["min-price"]).v
                /\ "max-price" \in DOMAIN req.args => r.price <= float(req.args["max-price"]).v
        IN resp.items = {r \in scope : InBounds(r)}

----------------------------------------------------------------------------
(* Shopcart.find_all_with_filter on a dict of filters *)

MaxFilters == 2

\* the entries a dict of filters is made of: per field, operators with values
\* that suit them, values that cannot be converted, an operator that does not
\* exist, "in" without a list, and ranges of one value, in order, of equal
\* ends and out of order
FilterEntries ==
    {
      Filter("user_id", "eq", FALSE, <<"1">>),
      Filter("user_id", "in", TRUE, << <<"1">>, <<"2">> >>),
      Filter("user_id", "range", TRUE, << <<"2">>, <<"1">> >>),
      Filter("quantity", "eq", FALSE, <<"2">>),
      Filter("quantity", "lt", FALSE, <<"2">>),
      Filter("quantity", "lte", FALSE, <<"1">>),
      Filter("quantity", "gt", FALSE, <<"1">>),
      Filter("quantity", "gte", FALSE, <<"2">>),
      Filter("quantity", "in", TRUE, << <<"1">>, <<"3">> >>),
      Filter("quantity", "range", TRUE, << <<"1">>, <<"2">> >>),
      Filter("quantity", "range", TRUE, << <<"2">>, <<"2">> >>),
      Filter("quantity", "range", TRUE, << <<"2">>, <<"1", "0">> >>),
      Filter("quantity", "range", TRUE, << <<"2">>, <<"1">> >>),
      Filter("quantity", "eq", FALSE, <<"x">>),
      Filter("quantity", "like", FALSE, <<"1">>),
      Filter("quantity", "in", FALSE, <<"1">>),
      Filter("quantity", "range", TRUE, << <<"1">> >>),
      Filter("price", "eq", FALSE, <<"1", "0">>),
      Filter("price", "gte", FALSE, <<"5", "0", ".", "0">>),
      Filter("price", "lt", FALSE, <<"5", "0">>),
      Filter("price", "in", TRUE, << <<"1", "0">>, <<"5", "0">> >>),
      Filter("price", "range", TRUE, << <<"1", "0">>, <<"5", "0">> >>),
      Filter("price", "range", TRUE, << <<"1", "0", ".", "0", "0">>, <<"1", "0">> >>),
      Filter("price", "range", TRUE, << <<"5", "0">>, <<"1", "0">> >>),
      Filter("created_at", "lt", FALSE, <<"2", "0", "2", "5", "-", "0", "1", "-", "0", "2">>),
      Filter("created_at", "gte", FALSE, <<"2", "0", "2", "5", "-", "0", "1", "-", "0", "2">>),
      Filter("created_at", "range", TRUE, << <<"2", "0", "2", "5", "-", "0", "1", "-", "0", "1">>, <<"2", "0", "2", "5", "-", "0", "1", "-", "0", "2">> >>),
      Filter("created_at", "range", TRUE, << <<"2", "0", "2", "5", "-", "0", "1", "-", "0", "2">>, <<"2", "0", "2", "5", "-", "0", "1", "-", "0", "1">> >>),
      Filter("created_at", "eq", FALSE, <<"0", "1", "-", "0", "1", "-", "2", "0", "2", "5">>),
      Filter("last_updated", "eq", FALSE, <<"2", "0", "2", "5", "-", "0", "1", "-", "0", "2">>),
      Filter("last_updated", "gt", FALSE, <<"2", "0", "2", "5", "-", "0", "1", "-", "0", "1">>),
      Filter("last_updated", "range", TRUE, << <<"2", "0", "2", "5", "-", "0", "1", "-", "0", "2">>, <<"2", "0", "2", "5", "-", "0", "1", "-", "0", "2">> >>),
      Filter("description", "eq", FALSE, <<"a">>),
      Filter("description", "in", TRUE, << <<"a">>, <<"b">> >>),
      Filter("description", "lt", FALSE, <<"b">>),
      Filter("description", "range", TRUE, << <<"a">>, <<"b">> >>),
      Filter("description", "range", TRUE, << <<"b">>, <<"a">> >>),
      Filter("item_id", "eq", FALSE, <<"2">>),
      Filter("item_id", "gt", FALSE, <<"1">>),
      Filter("item_id", "range", TRUE, << <<"1">>, <<"1">> >>) }

\* a dict has one entry per field
IsDict(filters) == \A j, k \in DOMAIN filters : j # k => filters[j].field # filters[k].field

\* Shopcart.find_all_with_filter(filters), for a dict of up to MaxFilters entries
FindAllWithFilter ==
    /\ pc = "idle"
    /\ \E n \in 0..MaxFilters : \E filters \in [1..n -> FilterEntries] :
        /\ IsDict(filters)
        /\ RespondGet([op |-> "find", filters |-> filters],
                      find_all_with_filter(store, filters))

NextFilter ==
    \/ FindAllWithFilter
    \/ Teardown

SpecFilter == InitGet /\ [][NextFilter]_vars

----------------------------------------------------------------------------
(* Properties of the query *)

\* what the value strings of the entries stand for: numbers, prices in
\* thousandths, points in time, and the place of a description in the order
\* of descriptions
IntMeaning == (<<"1">> :> 1) @@ (<<"2">> :> 2) @@ (<<"3">> :> 3) @@ (<<"1", "0">> :> 10)

PriceMeaning ==
    (<<"1", "0">> :> 10000) @@ (<<"1", "0", ".", "0", "0">> :> 10000) @@
    (<<"5", "0">> :> 50000) @@ (<<"5", "0", ".", "0">> :> 50000)

DateMeaning ==
    (<<"2", "0", "2", "5", "-", "0", "1", "-", "0", "1">> :> Midnight(2025, 1, 1)) @@
    (<<"2", "0", "2", "5", "-", "0", "1", "-", "0", "2">> :> Midnight(2025, 1, 2))

DescriptionMeaning == (<<"a">> :> 1) @@ (<<"b">> :> 2)

MeaningOf(field) ==
    CASE field = "price" -> PriceMeaning
      [] field \in {"quantity", "user_id", "item_id"} -> IntMeaning
      [] field \in {"created_at", "last_updated"} -> DateMeaning
      [] field = "description" -> DescriptionMeaning

\* the value of a field of a row, on the same scale
FieldVal(r, field) ==
    IF field = "description" THEN DescriptionMeaning[r.description] ELSE r[field]

\* all the strings of vs stand for a value of the field
Understood(field, vs) == \A k \in DOMAIN vs : vs[k] \in DOMAIN MeaningOf(field)

\* a range entry with two ends that stand for values
IsRange(f) == f.operator = "range" /\ f.islist /\ Len(f.value) = 2 /\ Understood(f.field, f.value)

Lo(f) == MeaningOf(f.field)[f.value[1]]
Hi(f) == MeaningOf(f.field)[f.value[2]]

\* an entry the query accepts
ValidFilter(f) ==
    CASE f.operator \in {"eq", "lt", "lte", "gt", "gte"} ->
            ~f.islist /\ f.value \in DOMAIN MeaningOf(f.field)
      [] f.operator = "in" -> f.islist /\ Understood(f.field, f.value)
      [] f.operator = "range" -> IsRange(f) /\ Lo(f) <= Hi(f)
      [] OTHER -> FALSE

\* the row r satisfies the valid entry f
Satisfies(r, f) ==
    LET x == FieldVal(r, f.field) IN
    CASE f.operator = "eq"  -> x = MeaningOf(f.field)[f.value]
      [] f.operator = "lt"  -> x < MeaningOf(f.field)[f.value]
      [] f.operator = "lte" -> x <= MeaningOf(f.field)[f.value]
      [] f.operator = "gt"  -> x > MeaningOf(f.field)[f.value]
      [] f.operator = "gte" -> x >= MeaningOf(f.field)[f.value]
      [] f.operator = "in"  -> \E k \in DOMAIN f.value : x = MeaningOf(f.field)[f.value[k]]
      [] f.operator = "range" -> Lo(f) <= x /\ x <= Hi(f)

\* C19: given a normalized filter mapping, the query returns exactly the
\* stored records that satisfy every supplied filter at once (conjunction, not
\* union), where eq means field = value, lt, lte, gt, gte the ordered
\* comparison, in means the field is a member of the list, and range means
\* lo <= field <= hi with both ends included; with an empty mapping it returns
\* all records.
C19_Conjunction ==
    (/\ pc = "responded" /\ req.op = "find"
     /\ \A j \in DOMAIN req.filters : ValidFilter(req.filters[j])) =>
        /\ resp.exc = "none"
        /\ resp.queried
        /\ resp.items = {r \in before : \A j \in DOMAIN req.filters : Satisfies(r, req.filters[j])}
        /\ req.filters = <<>> => resp.items = before

\* price = 10 and quantity >= 2 on the three rows: two rows cost 10.00, two
\* have a quantity of 2, and the one row that does both is returned
C19_Witness ==
    /\ pc = "responded" /\ req.op = "find"
    /\ before = QueryRows
    /\ req.filters = <<Filter("price", "eq", FALSE, <<"1", "0">>),
                       Filter("quantity", "gte", FALSE, <<"2">>)>>
    /\ Cardinality({r \in before : r.price = 10000}) = 2
    /\ Cardinality({r \in before : r.quantity >= 2}) = 2
    /\ resp.items = {r \in before : r.price = 10000 /\ r.quantity >= 2}
    /\ Cardinality(resp.items) = 1

\* C20: for every range filter whose lower bound is greater than its upper
\* bound after coercion, predicate building fails with a range-order error
\* and no query is run; a range with lo = hi is accepted.
C20_RangeOrder ==
    (pc = "responded" /\ req.op = "find") =>
        \A j \in DOMAIN req.filters :
            LET f == req.filters[j] IN
            IsRange(f) =>
                /\ Lo(f) > Hi(f) =>
                     /\ resp.exc = "ValueError"
                     /\ ~resp.queried
                     /\ resp.items = {}
                     /\ (\A h \in 1..(j - 1) : ValidFilter(req.filters[h])) =>
                          /\ resp.msg = "min value cannot be greater than max value in _range"
                          /\ resp.field = f.field
                /\ (/\ Lo(f) = Hi(f)
                    /\ \A h \in DOMAIN req.filters : h # j => ValidFilter(req.filters[h])) =>
                     /\ resp.exc = "none"
                     /\ resp.queried
                     /\ resp.items \subseteq {r \in before : FieldVal(r, f.field) = Lo(f)}

\* the price range 50,10 on a table with rows: the range-order error, and no
\* query
C20_Witness ==
    /\ pc = "responded" /\ req.op = "find"
    /\ before = QueryRows
    /\ req.filters = <<Filter("price", "range", TRUE, << <<"5", "0">>, <<"1", "0">> >>)>>
    /\ resp.exc = "ValueError"
    /\ resp.msg = "min value cannot be greater than max value in _range"
    /\ resp.field = "price"
    /\ ~resp.queried

----------------------------------------------------------------------------
(* The coercion of filter values: GET /shopcarts from the dict of filters   *)
(* on, with values and elements that type_converters reject                 *)

\* entries with values that suit the field, and with a value or one element
\* of a list that cannot be converted: a word, a fraction for an integer, a
\* date written day first, a day that does not exist
CoerceEntries ==
    {
      Filter("user_id", "eq", FALSE, <<"1">>),
      Filter("user_id", "eq", FALSE, <<"x">>),
      Filter("user_id", "in", TRUE, << <<"1">>, <<"x">> >>),
      Filter("user_id", "range", TRUE, << <<"x">>, <<"2">> >>),
      Filter("quantity", "gte", FALSE, <<"2">>),
      Filter("quantity", "eq", FALSE, <<"1", ".", "5">>),
      Filter("quantity", "in", TRUE, << <<"x">>, <<"1">> >>),
      Filter("quantity", "range", TRUE, << <<"1">>, <<"x">> >>),
      Filter("quantity", "range", TRUE, << <<"1">>, <<"2">> >>),
      Filter("price", "eq", FALSE, <<"1", "0">>),
      Filter("price", "lt", FALSE, <<"x">>),
      Filter("price", "in", TRUE, << <<"1", "0">>, <<"x">>, <<"5", "0">> >>),
      Filter("price", "range", TRUE, << <<"1", "0">>, <<"x">> >>),
      Filter("price", "in", TRUE, << <<"1", "0">>, <<"5", "0">> >>),
      Filter("created_at", "lt", FALSE, <<"2", "0", "2", "5", "-", "0", "1", "-", "0", "2">>),
      Filter("created_at", "eq", FALSE, <<"0", "1", "-", "0", "1", "-", "2", "0", "2", "5">>),
      Filter("created_at", "in", TRUE, << <<"2", "0", "2", "5", "-", "0", "1", "-", "0", "1">>, <<"x">> >>),
      Filter("created_at", "range", TRUE, << <<"x">>, <<"2", "0", "2", "5", "-", "0", "1", "-", "0", "2">> >>),
      Filter("last_updated", "eq", FALSE, <<"2", "0", "2", "5", "-", "0", "1", "-", "0", "2">>),
      Filter("last_updated", "gt", FALSE, <<"x">>),
      Filter("last_updated", "range", TRUE, << <<"2", "0", "2", "5", "-", "0", "1", "-", "0", "1">>, <<"2", "0", "2", "5", "-", "0", "2", "-", "3", "0">> >>),
      Filter("item_id", "eq", FALSE, <<"2">>),
      Filter("item_id", "like", FALSE, <<"x">>),
      Filter("item_id", "in", TRUE, << <<"1">>, <<"x">> >>),
      Filter("item_id", "range", TRUE, << <<"x">> >>),
      Filter("description", "eq", FALSE, <<"x">>),
      Filter("description", "in", TRUE, << <<"a">>, <<"x">> >>) }

\* get_shopcarts_controller from find_all_with_filter(filters=filters) on
ListCoerced ==
    /\ pc = "idle"
    /\ \E n \in 1..MaxFilters : \E filters \in [1..n -> CoerceEntries] :
        /\ IsDict(filters)
        /\ RespondGet([op |-> "list_dict", filters |-> filters],
                      ListExtracted(store, Extracted(filters)))

NextCoerce ==
    \/ ListCoerced
    \/ Teardown

SpecCoerce == InitGet /\ [][NextCoerce]_vars

\* the fields with a converter
TypedFields == {"price", "quantity", "user_id", "item_id", "created_at", "last_updated"}

\* the value of a scalar entry, the elements of a list
Elements(f) == IF f.islist THEN Range(f.value) ELSE {f.value}

\* an entry on a typed field with a string that stands for no value of the field
Uncoercible(f) ==
    f.field \in TypedFields /\ \E x \in Elements(f) : x \notin DOMAIN MeaningOf(f.field)

\* C21: for the typed fields (price, quantity, user_id, item_id, created_at,
\* last_updated), a filter whose value, or any single element of whose in-list
\* or range, cannot be coerced to the field's type fails with an invalid-value
\* error that names the field, even when every other element and every other
\* filter is valid; the request is answered 400.
C21_InvalidValue ==
    (pc = "responded" /\ req.op = "list_dict") =>
        \A j \in DOMAIN req.filters :
            Uncoercible(req.filters[j]) =>
                /\ resp.status = 400
                /\ resp.exc = "ValueError"
                /\ resp.items = {}
                /\ (\A h \in 1..(j - 1) : ValidFilter(req.filters[h])) =>
                     /\ resp.msg = "Invalid value for"
                     /\ resp.field = req.filters[j].field

\* price in 10, x, 50 after a valid filter on quantity: 400, invalid value for
\* price, although 10 and 50 are prices and rows match the first filter
C21_Witness ==
    /\ pc = "responded" /\ req.op = "list_dict"
    /\ before = QueryRows
    /\ req.filters = <<Filter("quantity", "gte", FALSE, <<"2">>),
                       Filter("price", "in", TRUE, << <<"1", "0">>, <<"x">>, <<"5", "0">> >>)>>
    /\ resp.status = 400
    /\ resp.msg = "Invalid value for"
    /\ resp.field = "price"

----------------------------------------------------------------------------
(* The range query on the whole table: helpers.extract_filters reads the    *)
(* four range parameters, Shopcart.find_by_ranges applies the eight bounds  *)

\* what parse_range_param returns: no range (None, None), or the two ends;
\* or the ValueError it raises
NoRange == [exc |-> "none", msg |-> "", given |-> FALSE, min_val |-> 0, max_val |-> 0]
RangeParsed(lo, hi) == [exc |-> "none", msg |-> "", given |-> TRUE, min_val |-> lo, max_val |-> hi]
RangeError(m) == [exc |-> "ValueError", msg |-> m, given |-> FALSE, min_val |-> 0, max_val |-> 0]

\* the date of the three parts of a string split at "-": four digits, then one
\* or two digits twice, that name a day
DateOfParts(parts) ==
    IF Len(parts) # 3 THEN NotConverted
    ELSE IF Len(parts[1]) # 4 \/ Len(parts[2]) \notin {1, 2} \/ Len(parts[3]) \notin {1, 2}
            \/ ~AllDigits(parts[1] \o parts[2] \o parts[3])
    THEN NotConverted
    ELSE IF Number(parts[1]) < 1 \/ Number(parts[2]) \notin 1..12
            \/ Number(parts[3]) \notin 1..DaysIn(Number(parts[2]))
    THEN NotConverted
    ELSE Converted(Midnight(Number(parts[1]), Number(parts[2]), Number(parts[3])))

\* datetime.strptime(s, "%Y-%m-%d")
strptime(s) == DateOfParts(split(s, "-"))

\* cast_func(part), or strptime when a date format is given
Cast(cast, part) ==
    CASE cast = "float" -> float(part)
      [] cast = "int" -> int(part)
      [] cast = "date" -> strptime(part)

\* parse_range_param: the comparison of the two ends
OrderedRange(lo, hi) ==
    IF ~lo.ok \/ ~hi.ok THEN RangeError("values are invalid or malformed")
    ELSE IF lo.v > hi.v THEN RangeError("min value cannot be greater than max value in")
    ELSE RangeParsed(lo.v, hi.v)

\* parse_range_param: from the parts of the value on
CastParts(cast, parts) ==
    IF Len(parts) # 2 THEN RangeError("must have two comma-separated values")
    ELSE OrderedRange(Cast(cast, parts[1]), Cast(cast, parts[2]))

\* helpers.parse_range_param
parse_range_param(request_args, param_name, cast) ==
    IF param_name \notin DOMAIN request_args \/ request_args[param_name] = <<>> THEN NoRange
    ELSE CastParts(cast, split(request_args[param_name], ","))

\* extract_filters: ranges
RangeSpec(param, min_key, max_key, cast) ==
    [param |-> param, min_key |-> min_key, max_key |-> max_key, cast |-> cast]

ranges ==
    << RangeSpec("range_price", "min_price", "max_price", "float"),
       RangeSpec("range_qty", "min_qty", "max_qty", "int"),
       RangeSpec("range_created_at", "min_date", "max_date", "date"),
       RangeSpec("range_last_updated", "min_update", "max_update", "date") >>

RangesExtracted(filters) == [exc |-> "none", msg |-> "", field |-> "", filters |-> filters, items |-> {}]
RangesError(param, m) == [exc |-> "ValueError", msg |-> m, field |-> param, filters |-> <<>>, items |-> {}]

RECURSIVE ExtractRangesFrom(_, _, _)

\* extract_filters: the body of the loop once parse_range_param has returned
\* or raised r
AddRange(request_args, specs, filters, r) ==
    IF r.exc # "none" THEN RangesError(Head(specs).param, r.msg)
    ELSE ExtractRangesFrom(request_args, Tail(specs),
             IF r.given
             THEN (Head(specs).min_key :> r.min_val) @@ (Head(specs).max_key :> r.max_val) @@ filters
             ELSE filters)

\* extract_filters: the loop over the ranges still to be read
ExtractRangesFrom(request_args, specs, filters) ==
    IF specs = <<>> THEN RangesExtracted(filters)
    ELSE AddRange(request_args, specs, filters,
                  parse_range_param(request_args, Head(specs).param, Head(specs).cast))

\* helpers.extract_filters
extract_filters(request_args) == ExtractRangesFrom(request_args, ranges, <<>>)

\* a bound of find_by_ranges: a number or a point in time, or math.inf
Finite(n) == [inf |-> FALSE, val |-> n]
inf == [inf |-> TRUE, val |-> 0]

\* filters.get(key, default)
get(filters, key, default) == IF key \in DOMAIN filters THEN Finite(filters[key]) ELSE default

\* column >= bound, column <= bound
AtLeast(x, b) == ~b.inf /\ x >= b.val
AtMost(x, b) == b.inf \/ x <= b.val

\* as find_by_ranges, but the bounds on last_updated are left out
find_by_ranges_SixBounds(rows, filters) ==
    {r \in rows :
        /\ AtLeast(r.price, get(filters, "min_price", Finite(0)))
        /\ AtMost(r.price, get(filters, "max_price", inf))
        /\ AtLeast(r.quantity, get(filters, "min_qty", Finite(0)))
        /\ AtMost(r.quantity, get(filters, "max_qty", inf))
        /\ AtLeast(r.created_at, get(filters, "min_date", Finite(Midnight(1970, 1, 1))))
        /\ AtMost(r.created_at, get(filters, "max_date", Finite(Midnight(3000, 1, 1))))}

\* Shopcart.find_by_ranges
find_by_ranges(rows, filters) ==
    {r \in rows :
        /\ AtLeast(r.price, get(filters, "min_price", Finite(0)))
        /\ AtMost(r.price, get(filters, "max_price", inf))
        /\ AtLeast(r.quantity, get(filters, "min_qty", Finite(0)))
        /\ AtMost(r.quantity, get(filters, "max_qty", inf))
        /\ AtLeast(r.created_at, get(filters, "min_date", Finite(Midnight(1970, 1, 1))))
        /\ AtMost(r.created_at, get(filters, "max_date", Finite(Midnight(3000, 1, 1))))
        /\ AtLeast(r.last_updated, get(filters, "min_update", Finite(Midnight(1970, 1, 1))))
        /\ AtMost(r.last_updated, get(filters, "max_update", Finite(Midnight(3000, 1, 1))))}

\* the values of the four range parameters
RangeParamValues ==
    ("range_price" :> {<<"1", "0", ",", "5", "0">>,
        <<"5", "0", ",", "1", "0">>,
        <<"1", "0">>,
        <<"1", "0", ",", "x">>,
        <<>>,
        <<"1", "0", ".", "0", "0", ",", "1", "0">>}) @@
    ("range_qty" :> {<<"1", ",", "2">>,
        <<"2", ",", "1">>,
        <<"1", ",", "2", ",", "3">>}) @@
    ("range_created_at" :> {<<"2", "0", "2", "5", "-", "0", "1", "-", "0", "1", ",", "2", "0", "2", "5", "-", "0", "1", "-", "0", "2">>,
        <<"2", "0", "2", "5", "-", "0", "1", "-", "0", "2", ",", "2", "0", "2", "5", "-", "0", "1", "-", "0", "1">>,
        <<"2", "0", "2", "5", "-", "0", "1", "-", "0", "1">>,
        <<"2", "0", "2", "5", "-", "1", "-", "1", ",", "2", "0", "2", "5", "-", "1", "-", "2">>}) @@
    ("range_last_updated" :> {<<"2", "0", "2", "5", "-", "0", "1", "-", "0", "2", ",", "2", "0", "2", "5", "-", "0", "1", "-", "0", "2">>,
        <<"x", ",", "2", "0", "2", "5", "-", "0", "1", "-", "0", "2">>})

\* the dicts that give each key of P one of its values
RECURSIVE DictsOver(_, _)
DictsOver(values, P) ==
    IF P = {} THEN {<<>>}
    ELSE LET p == CHOOSE x \in P : TRUE
         IN {(p :> v) @@ f : v \in values[p], f \in DictsOver(values, P \ {p})}

\* request.args with some of the range parameters
RangeArgs == UNION {DictsOver(RangeParamValues, P) : P \in SUBSET DOMAIN RangeParamValues}

\* the bounds a dict handed to find_by_ranges may hold: prices 10.00 and
\* 50.00, quantities, and the first two days of 2025
BoundValues ==
    ("min_price" :> {10000, 50000}) @@ ("max_price" :> {10000, 50000}) @@
    ("min_qty" :> {1, 2}) @@ ("max_qty" :> {1, 2}) @@
    ("min_date" :> {Midnight(2025, 1, 1), Midnight(2025, 1, 2)}) @@
    ("max_date" :> {Midnight(2025, 1, 1), Midnight(2025, 1, 2)}) @@
    ("min_update" :> {Midnight(2025, 1, 2)}) @@
    ("max_update" :> {Midnight(2025, 1, 1), Midnight(2025, 1, 2)})

\* the dicts with some of the eight bounds
RangeDicts == UNION {DictsOver(BoundValues, K) : K \in SUBSET DOMAIN BoundValues}

\* extract_filters() on request.args
ExtractFilters ==
    /\ pc = "idle"
    /\ \E args \in RangeArgs :
        RespondGet([op |-> "extract_filters", args |-> args, filters |-> <<>>],
                   extract_filters(args))

\* Shopcart.find_by_ranges(filters)
FindByRanges ==
    /\ pc = "idle"
    /\ \E filters \in RangeDicts :
        RespondGet([op |-> "find_by_ranges", args |-> <<>>, filters |-> filters],
                   [RangesExtracted(filters) EXCEPT !.items = find_by_ranges(store, filters)])

NextRanges ==
    \/ ExtractFilters
    \/ FindByRanges
    \/ Teardown

SpecRanges == InitGet /\ [][NextRanges]_vars

----------------------------------------------------------------------------
(* Properties of the range query *)

\* what the ends of the range parameters stand for
ShortDateMeaning ==
    DateMeaning @@ (<<"2", "0", "2", "5", "-", "1", "-", "1">> :> Midnight(2025, 1, 1)) @@
    (<<"2", "0", "2", "5", "-", "1", "-", "2">> :> Midnight(2025, 1, 2))

\* per range parameter: the keys of its two bounds and the meaning of its ends
RangeKeys ==
    ("range_price" :> [min |-> "min_price", max |-> "max_price", meaning |-> PriceMeaning]) @@
    ("range_qty" :> [min |-> "min_qty", max |-> "max_qty", meaning |-> IntMeaning]) @@
    ("range_created_at" :> [min |-> "min_date", max |-> "max_date", meaning |-> ShortDateMeaning]) @@
    ("range_last_updated" :> [min |-> "min_update", max |-> "max_update", meaning |-> ShortDateMeaning])

Commas(v) == {k \in DOMAIN v : v[k] = ","}

\* the ends of a value with one comma
LoEnd(v) == SubSeq(v, 1, (CHOOSE k \in Commas(v) : TRUE) - 1)
HiEnd(v) == SubSeq(v, (CHOOSE k \in Commas(v) : TRUE) + 1, Len(v))

\* a value with one comma whose two ends stand for values of the parameter
TwoEnds(p, v) ==
    /\ Cardinality(Commas(v)) = 1
    /\ LoEnd(v) \in DOMAIN RangeKeys[p].meaning
    /\ HiEnd(v) \in DOMAIN RangeKeys[p].meaning

LoOf(p, v) == RangeKeys[p].meaning[LoEnd(v)]
HiOf(p, v) == RangeKeys[p].meaning[HiEnd(v)]

\* a value that is not two comma-separated parts, or whose ends are out of order
BadRange(p, v) ==
    \/ Cardinality(Commas(v)) # 1
    \/ TwoEnds(p, v) /\ LoOf(p, v) > HiOf(p, v)

\* the bound of a dict under a key, or the value that stands for its absence
BoundOr(filters, key, absent) == IF key \in DOMAIN filters THEN filters[key] ELSE absent

\* find_by_ranges returns the rows within all eight bounds, an absent lower
\* bound being 0 or 1970-01-01 and an absent upper bound none or 3000-01-01
WithinEightBounds ==
    (pc = "responded" /\ req.op = "find_by_ranges") =>
        /\ resp.items =
             {r \in before :
                 /\ r.price >= BoundOr(req.filters, "min_price", 0)
                 /\ "max_price" \in DOMAIN req.filters => r.price <= req.filters["max_price"]
                 /\ r.quantity >= BoundOr(req.filters, "min_qty", 0)
                 /\ "max_qty" \in DOMAIN req.filters => r.quantity <= req.filters["max_qty"]
                 /\ r.created_at >= BoundOr(req.filters, "min_date", Midnight(1970, 1, 1))
                 /\ r.created_at <= BoundOr(req.filters, "max_date", Midnight(3000, 1, 1))
                 /\ r.last_updated >= BoundOr(req.filters, "min_update", Midnight(1970, 1, 1))
                 /\ r.last_updated <= BoundOr(req.filters, "max_update", Midnight(3000, 1, 1))}
        /\ req.filters = <<>> => resp.items = before

\* extract_filters rejects every range parameter, among those of the set
\* considered, that is not two parts in order, and turns the others into bounds
RangesChecked(considered) ==
    (pc = "responded" /\ req.op = "extract_filters") =>
        /\ \A p \in DOMAIN req.args :
             (req.args[p] \in considered /\ BadRange(p, req.args[p])) =>
                 /\ resp.exc = "ValueError"
                 /\ resp.filters = <<>>
                 /\ DOMAIN req.args = {p} => resp.field = p
        /\ (\A p \in DOMAIN req.args : TwoEnds(p, req.args[p]) /\ LoOf(p, req.args[p]) <= HiOf(p, req.args[p])) =>
             /\ resp.exc = "none"
             /\ DOMAIN resp.filters = UNION {{RangeKeys[p].min, RangeKeys[p].max} : p \in DOMAIN req.args}
             /\ \A p \in DOMAIN req.args :
                  /\ resp.filters[RangeKeys[p].min] = LoOf(p, req.args[p])
                  /\ resp.filters[RangeKeys[p].max] = HiOf(p, req.args[p])

AllValues == UNION Range(RangeParamValues)

\* C22 as stated: the whole-cart range query returns exactly the records that
\* satisfy all eight bounds at once (min and max of price, quantity,
\* created_at, last_updated), each absent bound being its permissive extreme
\* (price 0..infinity, quantity 0..infinity, dates 1970-01-01..3000-01-01);
\* with no bounds it returns every record; and a range parameter with min > max
\* or without exactly two comma-separated parts is rejected.
C22_RangeQuery == WithinEightBounds /\ RangesChecked(AllValues)

\* C22, amended: as stated, but only a range parameter whose value is not
\* empty is rejected when it has min > max or is not exactly two
\* comma-separated parts; a range parameter with an empty value is read as
\* an absent one and sets no bound.
C22_RangeQueryNonEmpty ==
    /\ WithinEightBounds
    /\ RangesChecked(AllValues \ {<<>>})
    /\ (pc = "responded" /\ req.op = "extract_filters") =>
         \A p \in DOMAIN req.args :
             (req.args[p] = <<>> /\ resp.exc = "none") =>
                 {RangeKeys[p].min, RangeKeys[p].max} \cap DOMAIN resp.filters = {}

\* a maximum price of 10.00 and a minimum quantity of 2 on the three rows: of
\* the two rows that cost 10.00 the one with quantity 2 is returned, the
\* other six bounds being absent
C22_Witness ==
    /\ pc = "responded" /\ req.op = "find_by_ranges"
    /\ before = QueryRows
    /\ DOMAIN req.filters = {"max_price", "min_qty"}
    /\ req.filters["max_price"] = 10000 /\ req.filters["min_qty"] = 2
    /\ Cardinality(resp.items) = 1
    /\ resp.items = {r \in before : r.price <= 10000 /\ r.quantity >= 2}

----------------------------------------------------------------------------
(* Properties of the deletes *)

\* C23: deleting an owner's whole cart succeeds (204) whether or not the owner
\* has any records, leaves no record of that owner, and is idempotent:
\* deleting twice gives the same table as deleting once; the records of the
\* other owners are unchanged.  (A delete whose commit fails is answered 500.)
C23_DeleteCartIdempotent ==
    Responded("delete_shopcart") =>
        /\ req.failAt = 0 => resp.status = 204
        /\ resp.status = 204 =>
             /\ find_by_user_id(store, req.user_id) = {}
             /\ OthersUnchanged(req.user_id)
             /\ \A items \in Orders(find_by_user_id(store, req.user_id)) :
                  /\ DeleteStatus(DeleteEach(NewCtx(store), items, 0)) = 204
                  /\ DeleteEach(NewCtx(store), items, 0).db = store
        /\ find_by_user_id(before, req.user_id) = {} =>
             (resp.status = 204 /\ store = before)

\* a cart of two rows was deleted while another owner had rows
C23_Witness ==
    /\ Responded("delete_shopcart") /\ resp.status = 204
    /\ Cardinality(find_by_user_id(before, req.user_id)) = 2
    /\ find_by_user_id(store, req.user_id) = {}
    /\ store # {}

\* C24: deleting the single item (u, i) removes exactly that record and leaves
\* every other record, u's other items included, unchanged; if (u, i) is not
\* in the table the request is answered 404 and the table is unchanged.
C24_DeleteItemOnly ==
    Responded("delete_item") =>
        /\ OldRow = {} => (resp.status = 404 /\ store = before)
        /\ (OldRow # {} /\ req.failAt = 0) => resp.status = 204
        /\ resp.status = 204 => (OldRow # {} /\ store = before \ OldRow)
        /\ resp.status \notin {204, 404} => store = before

\* one of the two items of a cart was deleted, the other stayed
C24_Witness ==
    /\ Responded("delete_item") /\ resp.status = 204
    /\ Cardinality(find_by_user_id(before, req.user_id)) = 2
    /\ Cardinality(find_by_user_id(store, req.user_id)) = 1
    /\ NewRow = {}

----------------------------------------------------------------------------
(* Reads of one owner's cart between the requests that fill and empty it *)

\* the query strings of the reads: none, a quantity, a quantity below 2, the
\* price 0.01, an item, and a quantity that is no number
NoArgs == <<>>
QuantityTwo == "quantity" :> <<"2">>
QuantityBelowTwo == "quantity" :> <<"~", "l", "t", "~", "2">>
PriceOneCent == "price" :> <<"0", ".", "0", "1">>
ItemTwo == "item_id" :> <<"2">>
QuantityWord == "quantity" :> <<"x">>

ReadArgs == {NoArgs, QuantityTwo, QuantityBelowTwo, PriceOneCent, ItemTwo, QuantityWord}

\* GET /shopcarts/<user_id>?<args>, the request after the one just answered
\* (or the first one); the request remembers what it came after
ReadNext ==
    /\ req.op # "read"
    /\ \E u \in Users : \E args \in ReadArgs :
        RespondGet([op |-> "read", user_id |-> u, args |-> args, after |-> req.op,
                    after_user |-> req.user_id, after_status |-> resp.status],
                   get_user_shopcart(store, u, args))

NextRead ==
    \/ AddItem
    \/ DeleteShopcart
    \/ Checkout
    \/ ReadNext
    \/ Teardown

SpecRead == Init /\ [][NextRead]_vars

\* the row r is one the query string asks for
Matches(r, args) ==
    CASE args = NoArgs -> TRUE
      [] args = QuantityTwo -> r.quantity = 2
      [] args = QuantityBelowTwo -> r.quantity < 2
      [] args = PriceOneCent -> r.price = 10
      [] args = ItemTwo -> r.item_id = 2

----------------------------------------------------------------------------
(* The timestamps of the rows.  The handlers never assign created_at or
   last_updated: the database fills both from now() when it inserts the row
   and last_updated again when it updates the row, and an object whose
   attributes did not change is not written.  The database's clock does not
   run backwards. *)

MaxTime == 2

\* the row without its timestamps: the attributes the handlers assign
Plain(r) == Row(r.user_id, r.item_id, r.description, r.quantity, r.price)

Stamped(r, c, l) ==
    [user_id |-> r.user_id, item_id |-> r.item_id, description |-> r.description,
     quantity |-> r.quantity, price |-> r.price, created_at |-> c, last_updated |-> l]

\* as Stamp, but an updated row gets both timestamps anew
Stamp_Recreated(old, rows, now) ==
    {LET was == find(old, r.user_id, r.item_id) IN
     IF was = {} THEN Stamped(r, now, now)
     ELSE LET o == CHOOSE x \in was : TRUE IN
          IF Plain(o) = r THEN o ELSE Stamped(r, now, now)
     : r \in rows}

\* the table after the statements of a request ran at the time now: old is
\* the table before, rows the attributes the request committed
\*   INSERT: created_at and last_updated take their default, now()
\*   UPDATE: last_updated takes its onupdate, now(); created_at is not in the statement
Stamp(old, rows, now) ==
    {LET was == find(old, r.user_id, r.item_id) IN
     IF was = {} THEN Stamped(r, now, now)
     ELSE LET o == CHOOSE x \in was : TRUE IN
          IF Plain(o) = r THEN o ELSE Stamped(r, o.created_at, now)
     : r \in rows}

\* the committed attributes the handler starts from
Attributes(rows) == {Plain(r) : r \in rows}

\* a handler has run at a time not before the last request's; the request
\* is remembered by its route and its status
RespondAt(r, ctx, st) ==
    \E now \in {session.now, session.now + 1} :
        /\ now <= MaxTime
        /\ pc' = "idle"
        /\ req' = r
        /\ resp' = [NoResp EXCEPT !.status = st]
        /\ before' = store
        /\ store' = Stamp(store, ctx.db, now)
        /\ session' = [now |-> now]

\* the product of the timed requests, the ceilings they carry and their batches
PricedProducts == {pd \in ValidProducts : pd.price > 0}

TimedCeilings == {c \in CeilingInputs : ~c.stock.given /\ ~c.purchase_limit.given}

TimedBatches ==
    { <<Entry(1, 2)>>, <<Entry(1, 0)>>, <<Entry(2, 1), Entry(1, 2)>>,
      <<Entry(1, 1), Entry(2, -1)>>, <<Entry(2, 2), Malformed>> }

\* POST /shopcarts/1 with a valid product
AddItemAt ==
    \E <<u, i>> \in ConcKeys : \E q \in QtyInputs, pd \in PricedProducts, failAt \in 0..1 :
        LET r == [NoReq EXCEPT !.op = "add_item", !.user_id = u, !.item_id = i]
            ctx == add_to_or_create_cart(NewCtx(Attributes(store)), u, i, pd.name,
                                         pd.price, q, failAt)
        IN /\ Bounded(ctx, failAt)
           /\ RespondAt(r, ctx, AddItemStatus(ctx))

\* POST /shopcarts/1/items with a valid product
AddProductAt ==
    \E <<u, i>> \in ConcKeys :
      \E q \in QtyInputs, pd \in PricedProducts, c \in TimedCeilings, failAt \in {0} :
        LET r == [NoReq EXCEPT !.op = "add_product", !.user_id = u, !.item_id = i]
            ctx == add_product_to_cart(NewCtx(Attributes(store)), u, i, q, pd.name,
                                       pd.price, c.stock, c.purchase_limit, failAt)
        IN /\ Bounded(ctx, failAt)
           /\ RespondAt(r, ctx, AddProductStatus(ctx))

\* PUT /shopcarts/1/items/<item_id>
UpdateItemAt ==
    \E <<u, i>> \in ConcKeys : \E q \in QtyInputs, failAt \in {0} :
        LET r == [NoReq EXCEPT !.op = "update_item", !.user_id = u, !.item_id = i]
            ctx == update_cart_item(NewCtx(Attributes(store)), u, i, q, failAt)
        IN /\ Bounded(ctx, failAt)
           /\ RespondAt(r, ctx, UpdateItemStatus(ctx))

\* PUT /shopcarts/1
UpdateShopcartAt ==
    \E items \in TimedBatches, failAt \in 0..2 :
        LET r == [NoReq EXCEPT !.op = "update_shopcart", !.user_id = 1]
            ctx == update_shopcart(NewCtx(Attributes(store)), 1, TRUE, items, failAt)
        IN /\ Bounded(ctx, failAt)
           /\ RespondAt(r, ctx, UpdateShopcartStatus(ctx))

InitTime ==
    /\ store = {}
    /\ pc = "idle"
    /\ req = NoReq
    /\ resp = NoResp
    /\ before = {}
    /\ session = [now |-> 0]

NextTime ==
    \/ AddItemAt
    \/ AddProductAt
    \/ UpdateItemAt
    \/ UpdateShopcartAt

SpecTime == InitTime /\ [][NextTime]_vars

\* the rows the request left in the table, each with what it was before
Kept == {<<o, n>> \in before \X store : o.user_id = n.user_id /\ o.item_id = n.item_id}

\* C26: created_at is set when the record is created and is not changed by a
\* later add-item increment, single-item update or batch update of the
\* record; last_updated is set at creation and never decreases across those
\* requests.
C26_Timestamps ==
    req.op \in {"add_item", "add_product", "update_item", "update_shopcart"} =>
        /\ \A <<o, n>> \in Kept :
             /\ n.created_at = o.created_at
             /\ n.last_updated >= o.last_updated
        /\ \A n \in store :
             find(before, n.user_id, n.item_id) = {} =>
                 (n.created_at = session.now /\ n.last_updated = session.now)

\* a batch update changed a row after the clock moved on: the row keeps its
\* created_at and has a later last_updated
C26_Witness ==
    /\ req.op = "update_shopcart" /\ resp.status = 200
    /\ \E <<o, n>> \in Kept :
         /\ n.quantity # o.quantity
         /\ n.created_at = o.created_at
         /\ o.last_updated = o.created_at
         /\ n.last_updated > o.last_updated

----------------------------------------------------------------------------
(* Properties of concurrent inserts *)

\* p and o are two answered add-item requests for one pair that both found no
\* record and both passed validate, so both tried to insert
BothInserted(p, o) ==
    /\ BothAnswered(p, o, "add_item")
    /\ req[p].user_id = req[o].user_id /\ req[p].item_id = req[o].item_id
    /\ session[p].obj = {} /\ session[o].obj = {}
    /\ req[p].quantity > 0 /\ req[o].quantity > 0

\* the row the add-item request of process p inserts
Inserted(p) ==
    Row(req[p].user_id, req[p].item_id, req[p].name, req[p].quantity, req[p].price)

\* C27: in every reachable state the store holds at most one record per
\* (owner_id, item_id) pair, also when two add-item requests for the same
\* new pair interleave so that both find no record and both try to insert:
\* exactly one insert commits (201) and the other fails with a persistence
\* error (DataValidationError, answered 500) and leaves the committed
\* record as the first request wrote it.
C27_OneRecordPerPair ==
    /\ PrimaryKeyOk(store)
    /\ \A p \in Procs : \A o \in Procs :
         BothInserted(p, o) =>
             LET won == {x \in {p, o} : resp[x].status = 201} IN
             /\ Cardinality(won) = 1
             /\ \A x \in {p, o} \ won :
                  resp[x].status = 500 /\ resp[x].exc = "DataValidationError"
             /\ \A w \in won :
                  find(store, req[w].user_id, req[w].item_id) = {Inserted(w)}

\* two inserts of one new pair with different quantities: one is answered 201
\* and the other 500, and the row has the quantity of the first
C27_Witness ==
    \E p \in Procs : \E o \in Procs :
        /\ BothInserted(p, o)
        /\ req[p].quantity # req[o].quantity
        /\ resp[p].status = 201 /\ resp[o].status = 500
        /\ find(store, req[p].user_id, req[p].item_id) = {Inserted(p)}

----------------------------------------------------------------------------
(* Reads of one owner's cart whose query string names an owner *)

\* the values of the user_id parameter: an owner, the other owner, a list of
\* both, an operator that admits both, a word, an operator that is not one,
\* and an operator without a value
UserIdValues ==
    { <<"1">>, <<"2">>, <<"1", ",", "2">>, <<"~", "g", "t", "~", "0">>, <<"x">>,
      <<"~", "x", "x", "~", "1">>, <<"~", "g", "t">> }

\* the rest of the query string: nothing, or one filter on another field
OtherArgs ==
    {<<>>} \cup UNION {{p :> v : v \in ParamValues[p]} :
                           p \in {"quantity", "item_id", "description"}}

\* GET /shopcarts/<user_id>?user_id=<v>&<rest>, or without the user_id
ReadAsOwner ==
    /\ pc = "idle"
    /\ \E u \in Users : \E rest \in OtherArgs :
        \/ RespondGet(GetReq("read", u, rest), get_user_shopcart(store, u, rest))
        \/ \E v \in UserIdValues :
             RespondGet(GetReq("read", u, ("user_id" :> v) @@ rest),
                        get_user_shopcart(store, u, ("user_id" :> v) @@ rest))

NextOwner ==
    \/ ReadAsOwner
    \/ Teardown

SpecOwner == InitGet /\ [][NextOwner]_vars

\* the query string without its user_id, and with another one
WithoutOwner(args) == [p \in DOMAIN args \ {"user_id"} |-> args[p]]
WithOwner(args, v) == ("user_id" :> v) @@ WithoutOwner(args)

\* the requests that differ from the answered one only in the user_id
\* parameter, which takes one of the values vs or is left out
Variants(vs) == {WithoutOwner(req.args)} \cup {WithOwner(req.args, v) : v \in vs}

\* every variant of the answered request returns the records it returned
SameRecords(vs) ==
    \A args \in Variants(vs) :
        get_user_shopcart(before, req.user_id, args).items = resp.items

\* the user_id values whose operator prefix the parser rejects
RejectedOwners == {<<"~", "x", "x", "~", "1">>, <<"~", "g", "t">>}

\* C28 as stated: a filtered read of owner u's cart never returns a record
\* of another owner, whatever query parameters are sent, and two requests
\* that differ only in the user_id query parameter return the same records.
C28_OwnerOverride ==
    Responded("read") =>
        /\ \A r \in resp.items : r.user_id = req.user_id
        /\ SameRecords(UserIdValues)

\* C28, amended: a read of owner u's cart never returns a record of another
\* owner, whatever query parameters are sent.  A user_id parameter whose
\* value is a plain value, a supported operator or a list is overridden by
\* the owner in the path: the requests that differ only in such a user_id
\* value (or leave it out) get the same status and the same records.  A
\* user_id value whose operator prefix is malformed or unsupported is
\* rejected with 400 before the override, and no record is returned.
C28_OwnerOverrideParsed ==
    Responded("read") =>
        /\ \A r \in resp.items : r.user_id = req.user_id
        /\ ("user_id" \in DOMAIN req.args /\ req.args["user_id"] \in RejectedOwners) =>
             (resp.status = 400 /\ resp.items = {})
        /\ ~("user_id" \in DOMAIN req.args /\ req.args["user_id"] \in RejectedOwners) =>
             \A args \in Variants(UserIdValues \ RejectedOwners) :
                 LET other == get_user_shopcart(before, req.user_id, args) IN
                 other.status = resp.status /\ other.items = resp.items

\* owner 1 reads with user_id=2 while owner 2 has a row: only owner 1's rows
\* are returned
C28_Witness ==
    /\ Responded("read") /\ req.user_id = 1
    /\ "user_id" \in DOMAIN req.args /\ req.args["user_id"] = <<"2">>
    /\ \E r \in before : r.user_id = 2
    /\ resp.status = 200
    /\ resp.items = find_by_user_id(before, 1)

----------------------------------------------------------------------------
(* Properties of a checkout that fails *)

\* the checkout was answered with an error
CheckoutFailed == Responded("checkout") /\ resp.status # 200

----------------------------------------------------------------------------
(* Properties of the quantity after an add *)

\* an add-item or add-product request was answered 201
Added ==
    pc = "responded" /\ req.op \in {"add_item", "add_product"} /\ resp.status = 201

\* C30 as stated: a successful add-item or add-product request never lowers
\* the stored quantity of its record: afterwards the quantity is strictly
\* greater than before (or the record is new), for every accepted request
\* quantity, negative ones included.
C30_AddNeverLowers ==
    Added =>
        /\ NewRow # {}
        /\ \A old \in OldRow : \A new \in NewRow : new.quantity > old.quantity

\* C30, amended: a successful add-item or add-product request stores the sum
\* of the record's quantity and the request's quantity (the request's
\* quantity for a new record), and succeeds only when that sum is above
\* zero.  The stored quantity is strictly greater than before exactly when
\* the request's quantity is positive: a quantity of 0 leaves it as it was,
\* and a negative quantity lowers it.
C30_AddStoresSum ==
    Added =>
        /\ NewRow # {}
        /\ \A new \in NewRow :
             /\ new.quantity > 0
             /\ OldRow = {} => new.quantity = req.quantity
             /\ \A old \in OldRow :
                  /\ new.quantity = old.quantity + req.quantity
                  /\ new.quantity > old.quantity <=> req.quantity > 0
        /\ store \ NewRow = before \ OldRow

\* an add of a negative quantity was answered 201 and lowered the quantity
C30_Witness ==
    /\ Added
    /\ req.quantity < 0
    /\ \E old \in OldRow : \E new \in NewRow : new.quantity < old.quantity

====
